---- MODULE Spec2Model ----
(***************************************************************************)
(* Battery dispatch simulation and cost accounting of the smart energy     *)
(* dashboard (modules/battery/domain.py, modules/battery/service.py,       *)
(* modules/battery/schemas.py, modules/recommendations/cost_model.py,      *)
(* modules/recommendations/use_cases.py, app/api/v1/battery.py,            *)
(* app/api/v1/recommendations.py, infra/weather/open_meteo.py).            *)
(*                                                                         *)
(* Numbers.  The program computes in floating point; the model computes    *)
(* in exact fixed point.  An energy is an integer count of units, Res      *)
(* units to one step of the 6-decimal rounding grid of simulate() (so one  *)
(* kWh is Res * 10^6 units).  Fractions (soc_min, soc_max, eta_c, eta_d)   *)
(* are pairs <<numerator, denominator>>.  Every multiplication and         *)
(* division the program performs is exact on the values the model draws    *)
(* (ExactArithmetic checks it).  round(x, 6) takes a value to the nearest  *)
(* grid step, and a value exactly between two steps to the even one, as    *)
(* Python's round does for a value it holds exactly.                       *)
(***************************************************************************)
EXTENDS Integers, Sequences, FiniteSets, TLC

VARIABLES
    params,      \* BatteryParams handed to simulate()
    timeseries,  \* the caller's input frame: a sequence of rows
    entry,       \* how the call arrives: "post_simulate" (API) or "simulate"
    pc,          \* position of the call
    df,          \* simulate(): df = timeseries.copy()
    k,           \* number of rows the loop has consumed
    soc,         \* simulate(): soc, carried across iterations
    charge,      \* simulate(): loop locals of the last iteration (unrounded)
    discharge,
    g_import,
    g_export,
    socs,        \* simulate(): the five result lists, kept as one list of rows
    out,         \* the frame simulate() returned (<<>> before it returns)
    calls,       \* number of simulate() calls that have returned
    todo,        \* number of simulate() calls the caller makes
    first,       \* the frame the first call returned (kept by the caller)
    timeseries2, \* the frame the caller hands to the second call
    given,       \* ghost: the caller's frames as they were before any call
    battery_enabled,             \* compare_costs(): the battery_enabled flag
    price_eur_mwh,               \* the price series handed to the cost model
    export_mode,                 \* the cost policy: "market" or "feed_in"
    feed_in_tariff_eur_per_kwh,
    result,      \* what the entry point returned (None before it returns)
    plan,                    \* cost_model.py: the hourly frame df
    recommendations,         \* cost_model.py: the recommendation rows
    cost_model_params,       \* cost_model.py: CostModelParams
    price_threshold_eur_kwh, \* generate_recommendations(): the threshold given
    history,      \* build_today_plan(): the merged history it is handed
    hours,        \* build_today_plan(): the length of the planning window
    weather_mode, \* core/settings.py: settings.weather_mode
    cache,       \* open_meteo.py: _cache, query key -> (time stored, frame)
    now,         \* open_meteo.py: what monotonic() returns
    query,       \* open_meteo.py: the last call of get_hourly_forecast_df
    threads      \* open_meteo.py: the calls of concurrent threads

vars == <<params, timeseries, entry, pc, df, k, soc, charge, discharge,
          g_import, g_export, socs, out, calls, todo, first, timeseries2, given,
          battery_enabled, price_eur_mwh, export_mode,
          feed_in_tariff_eur_per_kwh, result, plan, recommendations,
          cost_model_params, price_threshold_eur_kwh, history, hours,
          weather_mode, cache, now, query, threads>>

\* the state of the planning (the plan of today, the cost model of the
\* recommendations), and of the weather client
planVars ==
    <<plan, recommendations, cost_model_params, price_threshold_eur_kwh, history,
      hours, weather_mode>>

cacheVars == <<cache, now, query, threads>>

-----------------------------------------------------------------------------
(* Bounds and units *)

MaxLen == 2

\* the last tick of the monotonic clock
MaxNow == 3

\* the number of threads that call the weather client
MaxThreads == 2

RoundDigits == 6

Grid == 10 ^ RoundDigits

Res == 4 * 4

Kwh == Res * Grid

\* three quarters of one rounding step: an energy off the 6-decimal grid
OffGrid == (3 * Res) \div 4

None == <<>>

Some(v) == <<v>>

Min(a, b) == IF a <= b THEN a ELSE b

Max(a, b) == IF a >= b THEN a ELSE b

\* float(x) * f for a fraction f = <<n, d>>
MulFrac(x, f) == (x * f[1]) \div f[2]

\* float(x) / f for a fraction f = <<n, d>>, n > 0
DivFrac(x, f) == (x * f[2]) \div f[1]

FracLeq(f, g) == f[1] * g[2] <= g[1] * f[2]

FracPos(f) == f[1] > 0

\* round(x, 6): the nearest multiple of Res, a tie going to the even one
Round6(x) ==
    LET q == x \div Res
        r == x % Res
    IN  IF 2 * r < Res THEN q * Res
        ELSE IF 2 * r > Res THEN (q + 1) * Res
        ELSE IF q % 2 = 0 THEN q * Res ELSE (q + 1) * Res

-----------------------------------------------------------------------------
(* modules/battery/domain.py: BatteryParams *)

soc_min_kwh(p) == MulFrac(p.capacity_kwh, p.soc_min)

soc_max_kwh(p) == MulFrac(p.capacity_kwh, p.soc_max)

clamp_soc_kwh_none(p, soc_kwh) == soc_kwh

clamp_soc_kwh(p, soc_kwh) == Max(soc_min_kwh(p), Min(soc_max_kwh(p), soc_kwh))

initial_soc(p) ==
    IF p.initial_soc_kwh = None
    THEN MulFrac(p.capacity_kwh, <<1, 2>>)
    ELSE clamp_soc_kwh(p, p.initial_soc_kwh[1])

-----------------------------------------------------------------------------
(* modules/battery/schemas.py: BatteryParamsIn (the API's request schema) *)

BatteryParamsIn(p) ==
    /\ p.capacity_kwh >= 0
    /\ FracLeq(<<0, 1>>, p.soc_min) /\ FracLeq(p.soc_min, <<1, 1>>)
    /\ FracLeq(<<0, 1>>, p.soc_max) /\ FracLeq(p.soc_max, <<1, 1>>)
    /\ FracLeq(<<0, 1>>, p.eta_c) /\ FracLeq(p.eta_c, <<1, 1>>)
    /\ FracLeq(<<0, 1>>, p.eta_d) /\ FracLeq(p.eta_d, <<1, 1>>)
    /\ p.p_charge_max_kw >= 0
    /\ p.p_discharge_max_kw >= 0

-----------------------------------------------------------------------------
(* modules/battery/service.py: one iteration of the loop of simulate() *)

\* line 136: charge = discharge = g_import = g_export = 0.0
ResetFlowsStale(prev) == prev

ResetFlows(prev) == [charge |-> 0, discharge |-> 0, g_import |-> 0, g_export |-> 0]

\* the surplus branch, lines 138-152: assigns charge, soc and g_export
SurplusBranchExportsStored(p, soc0, surplus, z) ==
    LET room_kwh == Max(0, soc_max_kwh(p) - soc0)
        charge_gridside_kwh == Min(surplus, p.p_charge_max_kw)
        charge_stored_kwh == Min(room_kwh, MulFrac(charge_gridside_kwh, p.eta_c))
        ch == IF FracPos(p.eta_c) THEN DivFrac(charge_stored_kwh, p.eta_c) ELSE 0
    IN  [soc |-> soc0 + charge_stored_kwh,
         charge |-> ch,
         discharge |-> z.discharge,
         g_import |-> z.g_import,
         g_export |-> Max(0, surplus - charge_stored_kwh)]

SurplusBranchNoRoomFloor(p, soc0, surplus, z) ==
    LET room_kwh == soc_max_kwh(p) - soc0
        charge_gridside_kwh == Min(surplus, p.p_charge_max_kw)
        charge_stored_kwh == Min(room_kwh, MulFrac(charge_gridside_kwh, p.eta_c))
        ch == IF FracPos(p.eta_c) THEN DivFrac(charge_stored_kwh, p.eta_c) ELSE 0
    IN  [soc |-> soc0 + charge_stored_kwh,
         charge |-> ch,
         discharge |-> z.discharge,
         g_import |-> z.g_import,
         g_export |-> Max(0, surplus - ch)]

SurplusBranchNoPowerLimit(p, soc0, surplus, z) ==
    LET room_kwh == Max(0, soc_max_kwh(p) - soc0)
        charge_gridside_kwh == surplus
        charge_stored_kwh == Min(room_kwh, MulFrac(charge_gridside_kwh, p.eta_c))
        ch == IF FracPos(p.eta_c) THEN DivFrac(charge_stored_kwh, p.eta_c) ELSE 0
    IN  [soc |-> soc0 + charge_stored_kwh,
         charge |-> ch,
         discharge |-> z.discharge,
         g_import |-> z.g_import,
         g_export |-> Max(0, surplus - ch)]

SurplusBranch(p, soc0, surplus, z) ==
    LET room_kwh == Max(0, soc_max_kwh(p) - soc0)
        charge_gridside_kwh == Min(surplus, p.p_charge_max_kw)
        charge_stored_kwh == Min(room_kwh, MulFrac(charge_gridside_kwh, p.eta_c))
        ch == IF FracPos(p.eta_c) THEN DivFrac(charge_stored_kwh, p.eta_c) ELSE 0
    IN  [soc |-> soc0 + charge_stored_kwh,
         charge |-> ch,
         discharge |-> z.discharge,
         g_import |-> z.g_import,
         g_export |-> Max(0, surplus - ch)]

\* the deficit branch, lines 154-167: assigns discharge, soc and g_import
DeficitBranchSignSlip(p, soc0, surplus, z) ==
    LET need_kwh == -surplus
        available_stored_kwh == Max(0, soc0 - soc_min_kwh(p))
        discharge_stored_kwh == Min(available_stored_kwh, p.p_discharge_max_kw)
        deliverable_kwh == MulFrac(discharge_stored_kwh, p.eta_d)
        dis == Min(need_kwh, deliverable_kwh)
        spent_stored_kwh == IF FracPos(p.eta_d) THEN DivFrac(dis, p.eta_d) ELSE 0
    IN  [soc |-> soc0 - spent_stored_kwh,
         charge |-> z.charge,
         discharge |-> dis,
         g_import |-> Max(0, need_kwh + dis),
         g_export |-> z.g_export]

DeficitBranchDrawsBelowMin(p, soc0, surplus, z) ==
    LET need_kwh == -surplus
        available_stored_kwh == Max(0, soc0)
        discharge_stored_kwh == Min(available_stored_kwh, p.p_discharge_max_kw)
        deliverable_kwh == MulFrac(discharge_stored_kwh, p.eta_d)
        dis == Min(need_kwh, deliverable_kwh)
        spent_stored_kwh == IF FracPos(p.eta_d) THEN DivFrac(dis, p.eta_d) ELSE 0
    IN  [soc |-> soc0 - spent_stored_kwh,
         charge |-> z.charge,
         discharge |-> dis,
         g_import |-> Max(0, need_kwh - dis),
         g_export |-> z.g_export]

DeficitBranch(p, soc0, surplus, z) ==
    LET need_kwh == -surplus
        available_stored_kwh == Max(0, soc0 - soc_min_kwh(p))
        discharge_stored_kwh == Min(available_stored_kwh, p.p_discharge_max_kw)
        deliverable_kwh == MulFrac(discharge_stored_kwh, p.eta_d)
        dis == Min(need_kwh, deliverable_kwh)
        spent_stored_kwh == IF FracPos(p.eta_d) THEN DivFrac(dis, p.eta_d) ELSE 0
    IN  [soc |-> soc0 - spent_stored_kwh,
         charge |-> z.charge,
         discharge |-> dis,
         g_import |-> Max(0, need_kwh - dis),
         g_export |-> z.g_export]

\* lines 132-169: the row's flows and the clamped SoC; prev holds the loop
\* locals as the previous iteration left them
Dispatch(p, soc0, row, prev) ==
    LET surplus == row.production_kwh - row.consumption_kwh
        z == ResetFlows(prev)
        b == IF surplus >= 0 THEN SurplusBranch(p, soc0, surplus, z)
                             ELSE DeficitBranch(p, soc0, surplus, z)
    IN  [b EXCEPT !.soc = clamp_soc_kwh(p, b.soc)]

\* lines 171-175 and 177-182: the row of the returned frame
Emit(row, d) ==
    [production_kwh |-> row.production_kwh,
     consumption_kwh |-> row.consumption_kwh,
     soc_kwh |-> d.soc,
     charge_kwh |-> Round6(d.charge),
     discharge_kwh |-> Round6(d.discharge),
     grid_import_kwh |-> Round6(d.g_import),
     grid_export_kwh |-> Round6(d.g_export)]

-----------------------------------------------------------------------------
(* Inputs *)

Bands == {<<<<0, 1>>, <<1, 1>>>>, <<<<1, 4>>, <<3, 4>>>>, <<<<3, 4>>, <<1, 1>>>>,
          <<<<0, 1>>, <<1, 4>>>>}

Efficiencies == {<<<<1, 2>>, <<1, 2>>>>, <<<<1, 1>>, <<1, 1>>>>, <<<<1, 2>>, <<1, 1>>>>}

PowerLimits == {Kwh, 8 * Kwh}

InitialSocs == {None, Some(0), Some(4 * Kwh)}

MkParams(cap, band, eff, pw, init) ==
    [capacity_kwh |-> cap, soc_min |-> band[1], soc_max |-> band[2],
     eta_c |-> eff[1], eta_d |-> eff[2],
     p_charge_max_kw |-> pw, p_discharge_max_kw |-> pw,
     initial_soc_kwh |-> init]

\* power limits that are no multiple of 1e-6 kW
OffGridLimitParams ==
    {MkParams(4 * Kwh, <<<<0, 1>>, <<1, 1>>>>, eff, Kwh + OffGrid, None) :
        eff \in {<<<<1, 1>>, <<1, 1>>>>, <<<<1, 2>>, <<1, 2>>>>}}

ValidParams ==
    {MkParams(4 * Kwh, band, eff, pw, init) :
        band \in Bands, eff \in Efficiencies, pw \in PowerLimits, init \in InitialSocs}
        \cup OffGridLimitParams

\* configurations outside the documented ranges
InvalidParams ==
    {MkParams(4 * Kwh, <<<<3, 4>>, <<1, 4>>>>, <<<<1, 1>>, <<1, 1>>>>, Kwh, None),
     MkParams(-4 * Kwh, <<<<0, 1>>, <<1, 1>>>>, <<<<1, 1>>, <<1, 1>>>>, Kwh, None),
     MkParams(4 * Kwh, <<<<0, 1>>, <<1, 1>>>>, <<<<1, 1>>, <<1, 1>>>>, -Kwh, None),
     MkParams(4 * Kwh, <<<<0, 1>>, <<1, 1>>>>, <<<<0, 1>>, <<1, 1>>>>, Kwh, None),
     MkParams(4 * Kwh, <<<<0, 1>>, <<1, 1>>>>, <<<<1, 1>>, <<0, 1>>>>, Kwh, None),
     MkParams(4 * Kwh, <<<<0, 1>>, <<1, 1>>>>, <<<<2, 1>>, <<1, 1>>>>, Kwh, None),
     MkParams(4 * Kwh, <<<<3, 4>>, <<1, 1>>>>, <<<<0, 1>>, <<1, 1>>>>, Kwh, None),
     MkParams(4 * Kwh, <<<<0, 1>>, <<1, 4>>>>, <<<<1, 1>>, <<0, 1>>>>, Kwh, None)}

Productions == {0, OffGrid, 3 * Kwh}

Consumptions == {0, OffGrid, Kwh}

Rows == [production_kwh : Productions, consumption_kwh : Consumptions]

SeqsUpTo(S, n) == UNION {[1..m -> S] : m \in 0..n}

Frames == SeqsUpTo(Rows, MaxLen)

\* series the documented preconditions exclude: a negative production or
\* consumption in the last row, after rows that are in order
NegativeRows ==
    {[production_kwh |-> -Kwh, consumption_kwh |-> 0],
     [production_kwh |-> 3 * Kwh, consumption_kwh |-> -Kwh]}

NegativeFrames ==
    {Append(f, r) :
        f \in SeqsUpTo({[production_kwh |-> 3 * Kwh, consumption_kwh |-> Kwh]}, MaxLen - 1),
        r \in NegativeRows}

\* frames that lack one of the two columns
FramesMissingColumn == {<<[production_kwh |-> 3 * Kwh]>>, <<[consumption_kwh |-> Kwh]>>}

\* simulate() lines 114-115: required_cols - set(df.columns)
required_cols == {"production_kwh", "consumption_kwh"}

columns(frame) == IF frame = <<>> THEN required_cols ELSE DOMAIN frame[1]

missing(frame) == required_cols \ columns(frame)

-----------------------------------------------------------------------------------------------------------------------------------------------------
(* modules/recommendations/cost_model.py and modules/battery/service.py:   *)
(* the cost model.  Money is counted in thousandths of a EUR per unit of   *)
(* energy: x kWh at price_eur_mwh / 1000 EUR is x * price_eur_mwh          *)
(* thousandths, and a feed-in tariff is drawn in thousandths of a EUR per  *)
(* kWh.  A missing value (NaN) is None, a present one Some(v).             *)

\* cost_model.py baseline_grid_flows: the no-battery flows of a frame
baseline_grid_flows_swapped(frame) ==
    [i \in 1..Len(frame) |->
        [grid_import_kwh |-> Max(0, frame[i].production_kwh - frame[i].consumption_kwh),
         grid_export_kwh |-> Max(0, frame[i].consumption_kwh - frame[i].production_kwh)]]

baseline_grid_flows(frame) ==
    [i \in 1..Len(frame) |->
        [grid_import_kwh |-> Max(0, frame[i].consumption_kwh - frame[i].production_kwh),
         grid_export_kwh |-> Max(0, frame[i].production_kwh - frame[i].consumption_kwh)]]

\* service.py line 219: after the left join, .ffill() then .bfill() of the price
RECURSIVE LastBefore(_, _)
LastBefore(price, i) ==
    IF i = 0 THEN None
    ELSE IF price[i] # None THEN price[i] ELSE LastBefore(price, i - 1)

RECURSIVE FirstAfter(_, _)
FirstAfter(price, i) ==
    IF i > Len(price) THEN None
    ELSE IF price[i] # None THEN price[i] ELSE FirstAfter(price, i + 1)

JoinedPriceOfNextStep(price, i) ==
    IF i < Len(price) /\ price[i + 1] # None THEN price[i + 1]
    ELSE IF LastBefore(price, i) # None THEN LastBefore(price, i)
    ELSE FirstAfter(price, i)

JoinedPrice(price, i) ==
    IF LastBefore(price, i) # None THEN LastBefore(price, i) ELSE FirstAfter(price, i)

\* x * v, NaN when v is
Times(x, v) == IF v = None THEN None ELSE Some(x * v[1])

Minus(v, w) == IF v = None \/ w = None THEN None ELSE Some(v[1] - w[1])

\* service.py compute_costs, lines 219-229
compute_costs_modes_swapped(sim, price, mode, feed_in_tariff) ==
    [i \in 1..Len(sim) |->
        LET p == JoinedPrice(price, i)
            import_cost == Times(sim[i].grid_import_kwh, p)
            export_revenue == IF mode # "market"
                              THEN Times(sim[i].grid_export_kwh, p)
                              ELSE Some(sim[i].grid_export_kwh * feed_in_tariff)
        IN  [import_cost_eur |-> import_cost,
             export_revenue_eur |-> export_revenue,
             net_cost_eur |-> Minus(import_cost, export_revenue)]]

compute_costs(sim, price, mode, feed_in_tariff) ==
    [i \in 1..Len(sim) |->
        LET p == JoinedPrice(price, i)
            import_cost == Times(sim[i].grid_import_kwh, p)
            export_revenue == IF mode = "market"
                              THEN Times(sim[i].grid_export_kwh, p)
                              ELSE Some(sim[i].grid_export_kwh * feed_in_tariff)
        IN  [import_cost_eur |-> import_cost,
             export_revenue_eur |-> export_revenue,
             net_cost_eur |-> Minus(import_cost, export_revenue)]]

\* Series.sum(): the sum of the values present
RECURSIVE SumTo(_, _)
SumTo(f, n) ==
    IF n = 0 THEN 0
    ELSE SumTo(f, n - 1) + (IF f[n] = None THEN 0 ELSE f[n][1])

Total(rows, col) == SumTo([i \in 1..Len(rows) |-> rows[i][col]], Len(rows))

TotalKwh(rows, col) == SumTo([i \in 1..Len(rows) |-> Some(rows[i][col])], Len(rows))

\* compare_costs(series, config, policy, battery_enabled): baseline against
\* optimized; sim is the frame simulate() returned when the battery is enabled
compare_costs(frame, sim, price, mode, feed_in_tariff, enabled) ==
    LET base == baseline_grid_flows(frame)
        opt == IF enabled THEN sim ELSE base
        base_cost == Total(compute_costs(base, price, mode, feed_in_tariff), "net_cost_eur")
        opt_cost == Total(compute_costs(opt, price, mode, feed_in_tariff), "net_cost_eur")
    IN  [baseline_cost_eur |-> base_cost,
         optimized_cost_eur |-> opt_cost,
         savings_eur |-> base_cost - opt_cost,
         baseline_import_kwh |-> TotalKwh(base, "grid_import_kwh"),
         baseline_export_kwh |-> TotalKwh(base, "grid_export_kwh"),
         optimized_import_kwh |-> TotalKwh(opt, "grid_import_kwh"),
         optimized_export_kwh |-> TotalKwh(opt, "grid_export_kwh")]

\* app/api/v1/battery.py post_cost_summary, lines 131-140: the priced frame and
\* its three totals
post_cost_summary(sim, price, mode, feed_in_tariff) ==
    LET priced == compute_costs(sim, price, mode, feed_in_tariff)
    IN  [total_import_cost_eur |-> Total(priced, "import_cost_eur"),
         total_export_revenue_eur |-> Total(priced, "export_revenue_eur"),
         total_net_cost_eur |-> Total(priced, "net_cost_eur")]

Prices == {Some(-1), Some(2)}

\* a price series may lack the price of a step
PricesOrMissing == Prices \cup {None}

ExportModes == {"market", "feed_in"}

FeedInTariffs == {0, 2}

-----------------------------------------------------------------------------
(* The calls *)

InitSim(configs, frames, frames2, entries, n, enabled) ==
    /\ params \in configs
    /\ timeseries \in frames
    /\ timeseries2 \in frames2
    /\ entry \in entries
    /\ todo = n
    /\ battery_enabled \in enabled
    /\ given = <<timeseries, timeseries2>>
    /\ pc = "request"
    /\ df = <<>>
    /\ k = 0
    /\ soc = 0
    /\ charge = 0 /\ discharge = 0 /\ g_import = 0 /\ g_export = 0
    /\ socs = <<>>
    /\ out = <<>>
    /\ calls = 0
    /\ first = <<>>
    /\ price_eur_mwh = <<>>
    /\ export_mode = "feed_in"
    /\ feed_in_tariff_eur_per_kwh = 0
    /\ result = None

\* no cost model of the recommendations in use, no weather client in use
TodayIdle ==
    /\ history = <<>>
    /\ hours = 0
    /\ weather_mode = "csv"

PlanIdle ==
    /\ plan = <<>>
    /\ recommendations = <<>>
    /\ cost_model_params = None
    /\ price_threshold_eur_kwh = None
    /\ TodayIdle

CacheIdle ==
    /\ cache = <<>>
    /\ now = 0
    /\ query = None
    /\ threads = <<>>

InitWith(configs, frames, frames2, entries, n, enabled) ==
    /\ InitSim(configs, frames, frames2, entries, n, enabled)
    /\ PlanIdle
    /\ CacheIdle

\* one call of simulate(), through the API or directly
Init ==
    InitWith(ValidParams \cup InvalidParams,
             Frames \cup NegativeFrames \cup FramesMissingColumn, {<<>>},
             {"post_simulate", "simulate"}, 1, {TRUE})

\* app/api/v1/battery.py post_simulate: the request schema refuses the request
Reject ==
    /\ pc = "request"
    /\ entry = "post_simulate"
    /\ ~BatteryParamsIn(params)
    /\ pc' = "rejected"
    /\ UNCHANGED <<params, timeseries, entry, df, k, soc, charge, discharge,
                   g_import, g_export, socs, out, calls, todo, first,
                   timeseries2, given, battery_enabled, price_eur_mwh,
                   export_mode, feed_in_tariff_eur_per_kwh, result>>
    /\ UNCHANGED <<planVars, cacheVars>>

\* simulate() line 126: the SoC the loop starts from
StartSocCarried == IF calls = 0 THEN initial_soc(params) ELSE soc

StartSoc == initial_soc(params)

\* simulate(), lines 112-117: a frame without a required column raises
\* ValueError
Raise ==
    /\ calls < todo
    /\ battery_enabled
    /\ pc = "request"
    /\ entry = "post_simulate" => BatteryParamsIn(params)
    /\ missing(timeseries) # {}
    /\ df' = timeseries
    /\ pc' = "raised"
    /\ UNCHANGED <<params, timeseries, entry, k, soc, charge, discharge,
                   g_import, g_export, socs, out, calls, todo, first,
                   timeseries2, given, battery_enabled, price_eur_mwh,
                   export_mode, feed_in_tariff_eur_per_kwh, result>>
    /\ UNCHANGED <<planVars, cacheVars>>

\* simulate(), lines 112-129: copy the frame, empty lists, the start SoC
Call ==
    /\ calls < todo
    /\ battery_enabled
    /\ pc = (IF calls = 0 THEN "request" ELSE "returned")
    /\ entry = "post_simulate" => BatteryParamsIn(params)
    /\ missing(IF calls = 0 THEN timeseries ELSE timeseries2) = {}
    /\ df' = (IF calls = 0 THEN timeseries ELSE timeseries2)
    /\ socs' = <<>>
    /\ soc' = StartSoc
    /\ k' = 0
    /\ charge' = 0 /\ discharge' = 0 /\ g_import' = 0 /\ g_export' = 0
    /\ pc' = "loop"
    /\ UNCHANGED <<params, timeseries, entry, out, calls, todo, first,
                   timeseries2, given, battery_enabled, price_eur_mwh,
                   export_mode, feed_in_tariff_eur_per_kwh, result>>
    /\ UNCHANGED <<planVars, cacheVars>>

\* the loop locals as the last iteration left them
Locals ==
    [charge |-> charge, discharge |-> discharge,
     g_import |-> g_import, g_export |-> g_export]

\* lines 131-133: the row the iteration reads
CurrentRowPeeks == IF k + 2 <= Len(df) THEN df[k + 2] ELSE df[k + 1]

CurrentRow == df[k + 1]

\* simulate(), lines 131-175: one iteration
Step ==
    /\ pc = "loop"
    /\ k < Len(df)
    /\ LET d == Dispatch(params, soc, CurrentRow, Locals)
       IN  /\ soc' = d.soc
           /\ charge' = d.charge
           /\ discharge' = d.discharge
           /\ g_import' = d.g_import
           /\ g_export' = d.g_export
           /\ socs' = Append(socs, Emit(df[k + 1], d))
    /\ k' = k + 1
    /\ UNCHANGED <<params, timeseries, entry, pc, df, out, calls, todo, first,
                   timeseries2, given, battery_enabled, price_eur_mwh,
                   export_mode, feed_in_tariff_eur_per_kwh, result>>
    /\ UNCHANGED <<planVars, cacheVars>>

\* simulate(), lines 177-183: the loop is over, return the frame
Return ==
    /\ pc = "loop"
    /\ k = Len(df)
    /\ out' = socs
    /\ first' = (IF calls = 0 THEN socs ELSE first)
    /\ calls' = calls + 1
    /\ pc' = "returned"
    /\ UNCHANGED <<params, timeseries, entry, df, k, soc, charge, discharge,
                   g_import, g_export, socs, todo, timeseries2, given,
                   battery_enabled, price_eur_mwh, export_mode,
                   feed_in_tariff_eur_per_kwh, result>>
    /\ UNCHANGED <<planVars, cacheVars>>

Next == Reject \/ Raise \/ Call \/ Step \/ Return

Spec == Init /\ [][Next]_vars

\* two calls of simulate() by one caller, on two frames
RowsTwice ==
    {[production_kwh |-> 3 * Kwh, consumption_kwh |-> 0],
     [production_kwh |-> 0, consumption_kwh |-> Kwh],
     [production_kwh |-> 0, consumption_kwh |-> OffGrid]}

ParamsTwice ==
    {MkParams(4 * Kwh, band, eff, Kwh, init) :
        band \in {<<<<0, 1>>, <<1, 1>>>>, <<<<1, 4>>, <<3, 4>>>>},
        eff \in {<<<<1, 2>>, <<1, 2>>>>, <<<<1, 1>>, <<1, 1>>>>},
        init \in {None, Some(4 * Kwh)}}

InitTwice ==
    InitWith(ParamsTwice, SeqsUpTo(RowsTwice, MaxLen), SeqsUpTo(RowsTwice, MaxLen),
             {"simulate"}, 2, {TRUE})

NextTwice == Call \/ Step \/ Return

SpecTwice == InitTwice /\ [][NextTwice]_vars

\* compare_costs(): the baseline against the battery, priced
ParamsCost ==
    {MkParams(4 * Kwh, band, eff, pw, init) :
        band \in {<<<<0, 1>>, <<1, 1>>>>, <<<<1, 4>>, <<3, 4>>>>},
        eff \in {<<<<1, 2>>, <<1, 2>>>>, <<<<1, 1>>, <<1, 1>>>>},
        pw \in PowerLimits,
        init \in {None}}

InitCost ==
    InitWith(ParamsCost, Frames, {<<>>}, {"compare_costs"}, 1, BOOLEAN)

\* the comparison, once simulate() has returned or with the battery disabled
Compare ==
    /\ pc = (IF battery_enabled THEN "returned" ELSE "request")
    /\ \E price \in [1..Len(timeseries) -> Prices], mode \in ExportModes,
          tariff \in FeedInTariffs :
          /\ price_eur_mwh' = price
          /\ export_mode' = mode
          /\ feed_in_tariff_eur_per_kwh' = tariff
          /\ result' = Some(compare_costs(timeseries, out, price, mode, tariff,
                                          battery_enabled))
    /\ pc' = "compared"
    /\ UNCHANGED <<params, timeseries, entry, df, k, soc, charge, discharge,
                   g_import, g_export, socs, out, calls, todo, first,
                   timeseries2, given, battery_enabled>>
    /\ UNCHANGED <<planVars, cacheVars>>

NextCost == Call \/ Step \/ Return \/ Compare

SpecCost == InitCost /\ [][NextCost]_vars

\* POST /battery/cost-summary: simulate, then price the frame and total it
ParamsSummary ==
    {MkParams(4 * Kwh, <<<<0, 1>>, <<1, 1>>>>, <<<<1, 2>>, <<1, 2>>>>, Kwh, None),
     MkParams(4 * Kwh, <<<<1, 4>>, <<3, 4>>>>, <<<<1, 1>>, <<1, 1>>>>, 8 * Kwh, None)}

InitSummary ==
    InitWith(ParamsSummary, Frames, {<<>>}, {"post_cost_summary"}, 1, {TRUE})

\* post_cost_summary, lines 129-140, once simulate() has returned
Summarise ==
    /\ pc = "returned"
    /\ entry = "post_cost_summary"
    /\ \E price \in [1..Len(timeseries) -> PricesOrMissing], mode \in ExportModes,
          tariff \in FeedInTariffs :
          /\ price_eur_mwh' = price
          /\ export_mode' = mode
          /\ feed_in_tariff_eur_per_kwh' = tariff
          /\ result' = Some(post_cost_summary(out, price, mode, tariff))
    /\ pc' = "summed"
    /\ UNCHANGED <<params, timeseries, entry, df, k, soc, charge, discharge,
                   g_import, g_export, socs, out, calls, todo, first,
                   timeseries2, given, battery_enabled>>
    /\ UNCHANGED <<planVars, cacheVars>>

NextSummary == Call \/ Step \/ Return \/ Summarise

SpecSummary == InitSummary /\ [][NextSummary]_vars

\* GET /recommendations/cost-summary: the planning window, compared and
\* rounded for the response.  The numbers of _default_home_battery() are put
\* on the model's lattice: a band inside [0, 1], efficiencies below 1, a power
\* limit below the capacity, the initial SoC at half the capacity.
default_home_battery ==
    MkParams(4 * Kwh, <<<<1, 4>>, <<3, 4>>>>, <<<<1, 2>>, <<1, 2>>>>, Kwh, Some(2 * Kwh))

\* 0.01 EUR in the unit of the costs (energy unit * thousandth of a EUR / kWh)
Cent == 10 * Kwh

\* round(x, 2): the nearest multiple of Cent, a tie going to the even one
Round2(x) ==
    LET q == x \div Cent
        r == x % Cent
    IN  IF 2 * r < Cent THEN q * Cent
        ELSE IF 2 * r > Cent THEN (q + 1) * Cent
        ELSE IF q % 2 = 0 THEN q * Cent ELSE (q + 1) * Cent

\* cost_summary, lines 164-180: the response built from compare_costs' result;
\* savings_percent is kept as the ratio savings / baseline
cost_summary(compared) ==
    LET baseline == compared.baseline_cost_eur
        optimized == compared.optimized_cost_eur
        savings == compared.savings_eur
    IN  [baseline_cost_eur |-> Round2(baseline),
         optimized_cost_eur |-> Round2(optimized),
         savings_eur |-> Round2(savings),
         savings_percent |-> IF baseline > 0 THEN <<savings, baseline>> ELSE <<0, 1>>]

\* the prices of a planning window, thousandths of a EUR per kWh
PlanPrices == {Some(-10), Some(0), Some(10)}

\* hours >= 1: the window holds at least one step
InitPlan ==
    InitWith({default_home_battery}, Frames \ {<<>>}, {<<>>}, {"cost_summary"}, 1,
             BOOLEAN)

\* cost_summary, lines 150-180, with simulate() run inside compare_costs
CostSummary ==
    /\ pc = (IF battery_enabled THEN "returned" ELSE "request")
    /\ entry = "cost_summary"
    /\ \E price \in [1..Len(timeseries) -> PlanPrices] :
          /\ price_eur_mwh' = price
          /\ result' = Some(cost_summary(compare_costs(timeseries, out, price,
                                                       "feed_in", 0, battery_enabled)))
    /\ export_mode' = "feed_in"
    /\ feed_in_tariff_eur_per_kwh' = 0
    /\ pc' = "summarised"
    /\ UNCHANGED <<params, timeseries, entry, df, k, soc, charge, discharge,
                   g_import, g_export, socs, out, calls, todo, first,
                   timeseries2, given, battery_enabled>>
    /\ UNCHANGED <<planVars, cacheVars>>

NextPlan == Call \/ Step \/ Return \/ CostSummary

SpecPlan == InitPlan /\ [][NextPlan]_vars

-----------------------------------------------------------------------------
(* modules/recommendations/cost_model.py: the cost with and without the     *)
(* recommendations.  A row of df is [datetime, pv_kwh, load_kwh,            *)
(* price_eur_kwh], a row of recommendations [timestamp, action]; hours are  *)
(* counted 1, 2, ...; a price is in thousandths of a EUR per kWh.           *)

\* validate_input_df, lines 42-54: the columns are there and numeric in every
\* frame of the model, an empty frame is refused
validate_input_df(frame) == frame # <<>>

\* baseline_grid_flows, lines 64-71, over the columns pv_kwh and load_kwh
plan_grid_flows(frame) ==
    LET flows == baseline_grid_flows(
                     [i \in 1..Len(frame) |-> [production_kwh |-> frame[i].pv_kwh,
                                            consumption_kwh |-> frame[i].load_kwh]])
    IN  [i \in 1..Len(frame) |->
            [datetime |-> frame[i].datetime,
             pv_kwh |-> frame[i].pv_kwh,
             load_kwh |-> frame[i].load_kwh,
             price_eur_kwh |-> frame[i].price_eur_kwh,
             grid_import_kwh |-> flows[i].grid_import_kwh,
             grid_export_kwh |-> flows[i].grid_export_kwh]]

\* the five figures baseline_cost and cost_with_recommendations return
CostOfFlows(flows, p) ==
    LET import_cost ==
            SumTo([i \in 1..Len(flows) |->
                      Some(flows[i].grid_import_kwh * flows[i].price_eur_kwh)],
                  Len(flows))
        export_revenue ==
            SumTo([i \in 1..Len(flows) |->
                      Some(MulFrac(flows[i].grid_export_kwh * flows[i].price_eur_kwh,
                                   p.feed_in_factor))],
                  Len(flows))
    IN  [cost_eur |-> import_cost - export_revenue,
         import_cost_eur |-> import_cost,
         export_revenue_eur |-> export_revenue,
         import_kwh |-> TotalKwh(flows, "grid_import_kwh"),
         export_kwh |-> TotalKwh(flows, "grid_export_kwh")]

\* baseline_cost, lines 74-90
baseline_cost(frame, p) == CostOfFlows(plan_grid_flows(frame), p)

\* apply_recommendations, lines 112-119: the left merge on datetime =
\* timestamp, one row per matching recommendation, 'idle' where none matches
RECURSIVE LeftMerge(_, _, _)
LeftMerge(base, reco, i) ==
    IF i > Len(base) THEN <<>>
    ELSE LET hits == SelectSeq(reco, LAMBDA r : r.timestamp = base[i].datetime)
             rows == IF hits = <<>>
                     THEN <<[row |-> base[i], action |-> "idle"]>>
                     ELSE [j \in 1..Len(hits) |->
                              [row |-> base[i], action |-> hits[j].action]]
         IN  rows \o LeftMerge(base, reco, i + 1)

\* _apply_row, lines 126-149
apply_row_discharge_exports(m, p) ==
    LET imp == m.row.grid_import_kwh
        exp == m.row.grid_export_kwh
    IN  [m.row EXCEPT
            !.grid_import_kwh =
                IF m.action = "discharge"
                THEN imp - Min(imp, MulFrac(imp, p.discharge_offset))
                ELSE IF m.action = "shift_load"
                THEN imp - Min(imp, MulFrac(imp, p.shift_fraction))
                ELSE imp,
            !.grid_export_kwh =
                IF m.action \in {"charge", "discharge"}
                THEN exp - Min(exp, MulFrac(exp, p.charge_capture))
                ELSE exp]

apply_row(m, p) ==
    LET imp == m.row.grid_import_kwh
        exp == m.row.grid_export_kwh
    IN  [m.row EXCEPT
            !.grid_import_kwh =
                IF m.action = "discharge"
                THEN imp - Min(imp, MulFrac(imp, p.discharge_offset))
                ELSE IF m.action = "shift_load"
                THEN imp - Min(imp, MulFrac(imp, p.shift_fraction))
                ELSE imp,
            !.grid_export_kwh =
                IF m.action = "charge"
                THEN exp - Min(exp, MulFrac(exp, p.charge_capture))
                ELSE exp]

\* apply_recommendations, lines 93-157: the merged frame, with its action column
apply_recommendations(frame, reco, p) ==
    LET merged == LeftMerge(plan_grid_flows(frame), reco, 1)
    IN  [j \in 1..Len(merged) |->
            LET applied == apply_row(merged[j], p)
            IN  [datetime |-> applied.datetime,
                 price_eur_kwh |-> applied.price_eur_kwh,
                 action |-> merged[j].action,
                 grid_import_kwh |-> applied.grid_import_kwh,
                 grid_export_kwh |-> applied.grid_export_kwh]]

\* cost_with_recommendations, lines 160-180
cost_with_recommendations(frame, reco, p) ==
    CostOfFlows(apply_recommendations(frame, reco, p), p)

\* cost_model.py compare_costs(df, recommendations, params), lines 183-204
compare_costs_with_recommendations(frame, reco, p) ==
    LET base == baseline_cost(frame, p)
        with_rec == cost_with_recommendations(frame, reco, p)
    IN  [baseline_cost_eur |-> base.cost_eur,
         recommended_cost_eur |-> with_rec.cost_eur,
         savings_eur |-> base.cost_eur - with_rec.cost_eur,
         baseline_import_kwh |-> base.import_kwh,
         baseline_export_kwh |-> base.export_kwh,
         recommended_import_kwh |-> with_rec.import_kwh,
         recommended_export_kwh |-> with_rec.export_kwh]

Actions == {"charge", "discharge", "shift_load", "idle"}

\* hours of surplus, of deficit and of balance, at two prices
PlanRows ==
    [pv_kwh : {0, Kwh, 3 * Kwh}, load_kwh : {Kwh}, price_eur_kwh : {5, 10}]

\* frames of 0..MaxLen hours, hour i at row i
Plans ==
    UNION {{[i \in 1..m |-> [datetime |-> i, pv_kwh |-> f[i].pv_kwh,
                             load_kwh |-> f[i].load_kwh,
                             price_eur_kwh |-> f[i].price_eur_kwh]] :
               f \in [1..m -> PlanRows]} : m \in 0..MaxLen}

\* recommendation rows in the order of their hours, at most one row an hour
\* (as generate_recommendations emits them); an hour may have no row, and a
\* row may name an hour the frame does not hold
RECURSIVE RowsOf(_, _)
RowsOf(f, n) ==
    IF n = 0 THEN <<>>
    ELSE IF f[n] = "none" THEN RowsOf(f, n - 1)
    ELSE Append(RowsOf(f, n - 1), [timestamp |-> n, action |-> f[n]])

\* two rows for the first hour
RepeatedRows ==
    {<<[timestamp |-> 1, action |-> a], [timestamp |-> 1, action |-> b]>> :
        a \in {"idle", "discharge"}, b \in {"idle", "charge"}}

Recommendations ==
    {RowsOf(f, MaxLen) : f \in [1..MaxLen -> Actions \cup {"none"}]} \cup RepeatedRows

\* CostModelParams: the defaults, and every fraction at one half
CostModelParams ==
    {[feed_in_factor |-> <<0, 1>>, charge_capture |-> <<1, 1>>,
      discharge_offset |-> <<1, 1>>, shift_fraction |-> <<1, 5>>],
     [feed_in_factor |-> <<1, 2>>, charge_capture |-> <<1, 2>>,
      discharge_offset |-> <<1, 2>>, shift_fraction |-> <<1, 2>>]}

\* a caller of the cost model holds a frame, recommendation rows and
\* parameters; no battery is simulated
InitModel ==
    /\ InitSim({default_home_battery}, {<<>>}, {<<>>}, {"cost_model"}, 0, {FALSE})
    /\ plan \in Plans
    /\ recommendations \in Recommendations
    /\ cost_model_params \in {Some(p) : p \in CostModelParams}
    /\ price_threshold_eur_kwh = None
    /\ TodayIdle
    /\ CacheIdle

\* baseline_cost(df, params) returns
BaselineCostReturn ==
    /\ pc = "request"
    /\ entry = "cost_model"
    /\ result' = Some(baseline_cost(plan, cost_model_params[1]))
    /\ pc' = "baseline"
    /\ UNCHANGED <<params, timeseries, entry, df, k, soc, charge, discharge,
                   g_import, g_export, socs, out, calls, todo, first,
                   timeseries2, given, battery_enabled, price_eur_mwh,
                   export_mode, feed_in_tariff_eur_per_kwh>>
    /\ UNCHANGED <<planVars, cacheVars>>

\* compare_costs(df, recommendations, params) raises ValueError: the frame is
\* empty (validate_input_df, called by apply_recommendations)
CompareRaise ==
    /\ pc = "request"
    /\ entry = "cost_model"
    /\ ~validate_input_df(plan)
    /\ pc' = "raised"
    /\ UNCHANGED <<params, timeseries, entry, df, k, soc, charge, discharge,
                   g_import, g_export, socs, out, calls, todo, first,
                   timeseries2, given, battery_enabled, price_eur_mwh,
                   export_mode, feed_in_tariff_eur_per_kwh, result>>
    /\ UNCHANGED <<planVars, cacheVars>>

\* compare_costs(df, recommendations, params) returns
CompareReturn ==
    /\ pc = "request"
    /\ entry = "cost_model"
    /\ validate_input_df(plan)
    /\ result' = Some(compare_costs_with_recommendations(plan, recommendations,
                                                         cost_model_params[1]))
    /\ pc' = "kpi"
    /\ UNCHANGED <<params, timeseries, entry, df, k, soc, charge, discharge,
                   g_import, g_export, socs, out, calls, todo, first,
                   timeseries2, given, battery_enabled, price_eur_mwh,
                   export_mode, feed_in_tariff_eur_per_kwh>>
    /\ UNCHANGED <<planVars, cacheVars>>

NextModel == BaselineCostReturn \/ CompareRaise \/ CompareReturn

SpecModel == InitModel /\ [][NextModel]_vars

-----------------------------------------------------------------------------
(* modules/recommendations/use_cases.py: generate_recommendations().  A row *)
(* of the plan is [datetime, pv_kwh, load_kwh, price_eur_kwh,               *)
(* cloud_cover_pct], the cloud cover in percent or None; a score is counted *)
(* in hundredths.                                                           *)

\* lines 57-63: pv_kwh * (1 - alpha * cc / 100) with alpha = 0.70, clipped at 0
pv_kwh_adj(r) ==
    LET cc == IF r.cloud_cover_pct = None THEN 0
              ELSE Min(Max(r.cloud_cover_pct[1], 0), 100)
    IN  Max(r.pv_kwh - (r.pv_kwh \div 1000) * (7 * cc), 0)

\* _auto_price_threshold, lines 27-37: np.quantile(prices, 0.75), linear
\* between the two neighbours; 0.12 when there is no price
auto_price_threshold(prices) ==
    IF prices = <<>> THEN 120
    ELSE LET sorted == SortSeq(prices, LAMBDA a, b : a < b)
             pos4 == 3 * (Len(prices) - 1)
             lo == pos4 \div 4 + 1
         IN  IF pos4 % 4 = 0 THEN sorted[lo]
             ELSE sorted[lo] + ((pos4 % 4) * (sorted[lo + 1] - sorted[lo])) \div 4

\* line 66
threshold(frame, given_threshold) ==
    IF given_threshold = None
    THEN auto_price_threshold([i \in 1..Len(frame) |-> frame[i].price_eur_kwh])
    ELSE given_threshold[1]

\* lines 75-82: the frame handed to simulate()
sim_in(frame) ==
    [i \in 1..Len(frame) |->
        [production_kwh |-> Max(pv_kwh_adj(frame[i]), 0),
         consumption_kwh |-> Max(frame[i].load_kwh, 0)]]

\* the thresholds of lines 107, 111, 116: 0.01 kWh of charge or discharge,
\* 0.2 kWh of PV
FlowThreshold == Kwh \div 100

PvThreshold == Kwh \div 5

\* lines 116 and 125: the advice of an hour without a battery action
cheap_hour(r, thr) == r.price_eur_kwh <= thr /\ pv_kwh_adj(r) > PvThreshold

\* lines 98-132: action, reason and score of hour i
advice_at_least(r, thr, enabled, sim_row) ==
    IF enabled /\ sim_row # None
    THEN IF sim_row[1].charge_kwh >= FlowThreshold
         THEN [action |-> "charge", reason |-> "battery charging from PV surplus",
               score |-> 85]
         ELSE IF sim_row[1].discharge_kwh >= FlowThreshold
         THEN [action |-> "discharge",
               reason |-> "battery discharging to reduce grid import", score |-> 80]
         ELSE IF cheap_hour(r, thr)
         THEN [action |-> "shift_load", reason |-> "cheap hour with PV available",
               score |-> 60]
         ELSE [action |-> "idle", reason |-> "battery not needed for this hour",
               score |-> 35]
    ELSE IF cheap_hour(r, thr)
         THEN [action |-> "shift_load", reason |-> "cheap hour with PV available",
               score |-> 60]
         ELSE [action |-> "idle", reason |-> "no action recommended", score |-> 30]

advice(r, thr, enabled, sim_row) ==
    IF enabled /\ sim_row # None
    THEN IF sim_row[1].charge_kwh > FlowThreshold
         THEN [action |-> "charge", reason |-> "battery charging from PV surplus",
               score |-> 85]
         ELSE IF sim_row[1].discharge_kwh > FlowThreshold
         THEN [action |-> "discharge",
               reason |-> "battery discharging to reduce grid import", score |-> 80]
         ELSE IF cheap_hour(r, thr)
         THEN [action |-> "shift_load", reason |-> "cheap hour with PV available",
               score |-> 60]
         ELSE [action |-> "idle", reason |-> "battery not needed for this hour",
               score |-> 35]
    ELSE IF cheap_hour(r, thr)
         THEN [action |-> "shift_load", reason |-> "cheap hour with PV available",
               score |-> 60]
         ELSE [action |-> "idle", reason |-> "no action recommended", score |-> 30]

\* lines 134-145: the cloud penalty and the emitted row
recommendation_row(r, thr, enabled, sim_row) ==
    LET a == advice(r, thr, enabled, sim_row)
        cloudy == /\ r.cloud_cover_pct # None
                  /\ r.cloud_cover_pct[1] > 80
                  /\ a.action \in {"charge", "shift_load"}
        score == IF cloudy THEN Max(0, a.score - 10) ELSE a.score
    IN  [timestamp |-> r.datetime,
         action |-> a.action,
         reason |-> a.reason,
         cloudy |-> cloudy,
         score |-> Min(Max(score, 0), 100)]

\* generate_recommendations, lines 84-147: one row an hour; sim_out is the
\* frame simulate() returned, None with the battery disabled
generate_recommendations(frame, given_threshold, enabled, sim_out) ==
    LET thr == threshold(frame, given_threshold)
    IN  [i \in 1..Len(frame) |->
            recommendation_row(frame[i], thr, enabled,
                               IF sim_out = None THEN None ELSE Some(sim_out[1][i]))]

\* hours of a large surplus, of a surplus of 0.01 kWh, of a large deficit and
\* of a deficit of 0.01 kWh, at two prices, under a clear or an overcast sky
AdviceEnergies ==
    {<<3 * Kwh, Kwh>>, <<FlowThreshold, 0>>, <<0, Kwh>>, <<0, FlowThreshold>>}

AdviceRows ==
    {[pv_kwh |-> e[1], load_kwh |-> e[2], price_eur_kwh |-> pr, cloud_cover_pct |-> cc] :
        e \in AdviceEnergies, pr \in {4, 8}, cc \in {None, Some(100)}}

AdvicePlans ==
    UNION {{[i \in 1..m |-> [datetime |-> i, pv_kwh |-> f[i].pv_kwh,
                             load_kwh |-> f[i].load_kwh,
                             price_eur_kwh |-> f[i].price_eur_kwh,
                             cloud_cover_pct |-> f[i].cloud_cover_pct]] :
               f \in [1..m -> AdviceRows]} : m \in 0..MaxLen}

Thresholds == {None, Some(4)}

InitAdvice ==
    /\ plan \in AdvicePlans
    /\ InitSim({default_home_battery}, {sim_in(plan)}, {<<>>},
               {"generate_recommendations"}, 1, BOOLEAN)
    /\ recommendations = <<>>
    /\ cost_model_params = None
    /\ price_threshold_eur_kwh \in Thresholds
    /\ TodayIdle
    /\ CacheIdle

\* generate_recommendations returns, simulate() having returned if the
\* battery is enabled
Recommend ==
    /\ pc = (IF battery_enabled THEN "returned" ELSE "request")
    /\ entry = "generate_recommendations"
    /\ result' = Some(generate_recommendations(
                          plan, price_threshold_eur_kwh, battery_enabled,
                          IF battery_enabled THEN Some(out) ELSE None))
    /\ pc' = "recommended"
    /\ UNCHANGED <<params, timeseries, entry, df, k, soc, charge, discharge,
                   g_import, g_export, socs, out, calls, todo, first,
                   timeseries2, given, battery_enabled, price_eur_mwh,
                   export_mode, feed_in_tariff_eur_per_kwh>>
    /\ UNCHANGED <<planVars, cacheVars>>

NextAdvice == Call \/ Step \/ Return \/ Recommend

SpecAdvice == InitAdvice /\ [][NextAdvice]_vars

-----------------------------------------------------------------------------
(* infra/weather/open_meteo.py: the forecast client and its cache.  A       *)
(* latitude or longitude is counted in 1e-7 degrees, a datetime in hours, a  *)
(* date in days, the clock and a TTL in seconds.                            *)

\* round(float(latitude), 6): the nearest multiple of 10, a tie to the even one
RoundDegrees(x) ==
    LET q == x \div 10
        r == x % 10
    IN  IF 2 * r < 10 THEN q * 10
        ELSE IF 2 * r > 10 THEN (q + 1) * 10
        ELSE IF q % 2 = 0 THEN q * 10 ELSE (q + 1) * 10

\* datetime.date()
DateOf(dt) == dt \div 24

\* lines 125-134: the OpenMeteoQueryKey of a call
QueryKey(latitude, longitude, start_dt_utc, end_dt_utc) ==
    [latitude |-> RoundDegrees(latitude),
     longitude |-> RoundDegrees(longitude),
     start_date |-> DateOf(start_dt_utc),
     end_date |-> DateOf(end_dt_utc)]

\* _get_cache, lines 43-55: the frame found and the cache it leaves; an item
\* of the cache is <<time stored, frame>>
get_cache_expires_at_ttl(c, key, ttl_s, t) ==
    IF ttl_s <= 0 THEN [found |-> None, cache |-> c]
    ELSE IF c[key] = None THEN [found |-> None, cache |-> c]
    ELSE IF (t - c[key][1][1]) >= ttl_s
         THEN [found |-> None, cache |-> [c EXCEPT ![key] = None]]
         ELSE [found |-> Some(c[key][1][2]), cache |-> c]

get_cache(c, key, ttl_s, t) ==
    IF ttl_s <= 0 THEN [found |-> None, cache |-> c]
    ELSE IF c[key] = None THEN [found |-> None, cache |-> c]
    ELSE IF (t - c[key][1][1]) > ttl_s
         THEN [found |-> None, cache |-> [c EXCEPT ![key] = None]]
         ELSE [found |-> Some(c[key][1][2]), cache |-> c]

\* _set_cache, lines 58-60
set_cache(c, key, frame, t) == [c EXCEPT ![key] = Some(<<t, frame>>)]

\* what Open-Meteo answers for a range of dates: the hours of those days
Upstream(start_date, end_date) == (24 * start_date)..(24 * end_date + 23)

\* _filter_window, lines 195-205: the hours in [start, end)
filter_window(frame, start_dt_utc, end_dt_utc) ==
    {h \in frame : start_dt_utc <= h /\ h < end_dt_utc}

Latitudes == {482000002, 482000004, 482000012}

Longitudes == {163000000}

\* <<start_dt_utc, end_dt_utc>>: two windows of one day, one that ends on the
\* next day, one that is empty
Windows == {<<0, 2>>, <<1, 3>>, <<0, 25>>, <<4, 4>>}

TTLs == {0, 2}

Keys ==
    {QueryKey(la, lo, w[1], w[2]) : la \in Latitudes, lo \in Longitudes, w \in Windows}

\* a process that has just imported the module: the cache is empty
InitCache ==
    /\ InitSim({default_home_battery}, {<<>>}, {<<>>}, {"get_hourly_forecast_df"},
               0, {FALSE})
    /\ PlanIdle
    /\ cache = [key \in Keys |-> None]
    /\ now = 0
    /\ query = None
    /\ threads = <<>>

simVars ==
    <<params, timeseries, entry, pc, df, k, soc, charge, discharge, g_import,
      g_export, socs, out, calls, todo, first, timeseries2, given,
      battery_enabled, price_eur_mwh, export_mode, feed_in_tariff_eur_per_kwh,
      result>>

\* no call is between its cache lookup and its answer
NoCallUnderWay == IF query = None THEN TRUE ELSE query[1].phase # "fetching"

\* time passes
Tick ==
    /\ now < MaxNow
    /\ now' = now + 1
    /\ UNCHANGED <<cache, query, threads, simVars, planVars>>

\* get_hourly_forecast_df, lines 118-122: the window is empty, ValueError
CallRaises ==
    /\ NoCallUnderWay
    /\ \E la \in Latitudes, lo \in Longitudes, w \in Windows, ttl \in TTLs :
          /\ w[2] <= w[1]
          /\ query' = Some([latitude |-> la, longitude |-> lo, start_dt_utc |-> w[1],
                            end_dt_utc |-> w[2], cache_ttl_s |-> ttl,
                            key |-> QueryKey(la, lo, w[1], w[2]),
                            phase |-> "raised", fetched |-> FALSE,
                            returned |-> None])
    /\ UNCHANGED <<cache, now, threads, simVars, planVars>>

\* get_hourly_forecast_df, lines 118-138: the key, the lookup, and the answer
\* from the cache if the lookup finds a frame
LookupOf(la, lo, w, ttl) ==
    /\ w[2] > w[1]
    /\ LET key == QueryKey(la, lo, w[1], w[2])
           got == get_cache(cache, key, ttl, now)
       IN  /\ cache' = got.cache
           /\ query' = Some([latitude |-> la, longitude |-> lo,
                             start_dt_utc |-> w[1], end_dt_utc |-> w[2],
                             cache_ttl_s |-> ttl, key |-> key,
                             phase |-> IF got.found = None THEN "fetching"
                                                           ELSE "returned",
                             fetched |-> FALSE,
                             returned |-> IF got.found = None THEN None
                                          ELSE Some(filter_window(got.found[1],
                                                                  w[1], w[2]))])

Lookup ==
    /\ NoCallUnderWay
    /\ \E la \in Latitudes, lo \in Longitudes, w \in Windows, ttl \in TTLs :
          LookupOf(la, lo, w, ttl)
    /\ UNCHANGED <<now, threads, simVars, planVars>>

\* lines 140-150: the upstream request succeeds; store and answer
FetchOk ==
    /\ ~NoCallUnderWay
    /\ LET q == query[1]
           frame == Upstream(q.key.start_date, q.key.end_date)
       IN  /\ cache' = set_cache(cache, q.key, frame, now)
           /\ query' = Some([q EXCEPT !.phase = "returned", !.fetched = TRUE,
                                      !.returned = Some(filter_window(frame,
                                                                      q.start_dt_utc,
                                                                      q.end_dt_utc))])
    /\ UNCHANGED <<now, threads, simVars, planVars>>

\* lines 140-148: the upstream request or its parsing fails, RuntimeError
FetchFails ==
    /\ ~NoCallUnderWay
    /\ query' = Some([query[1] EXCEPT !.phase = "failed", !.fetched = TRUE])
    /\ UNCHANGED <<cache, now, threads, simVars, planVars>>

NextCache == Tick \/ CallRaises \/ Lookup \/ FetchOk \/ FetchFails

SpecCache == InitCache /\ [][NextCache]_vars

-----------------------------------------------------------------------------
(* modules/timeseries/use_cases.py: build_today_plan().  A row of the       *)
(* history or of the plan is [datetime, pv_kwh, load_kwh, price_eur_kwh,    *)
(* temp_c, cloud_cover_pct], each value Some(v) or None (NaN); a datetime   *)
(* is counted in hours from today 00:00 UTC.                                *)

\* _fallback_profile, lines 116-123: the length of the profile
ProfileHours == 24

\* window_for_today_utc, line 96: the longest window
MaxHours == 168

\* core/settings.py lines 19-24: the location in 1e-7 degrees, the TTL in s
settings ==
    [weather_lat |-> 466236000, weather_lon |-> 143075000,
     weather_cache_ttl_s |-> 900]

\* base.reindex(idx), line 196: the history's row of an hour, NaN where the
\* history has none
Reindexed(hist, dt) ==
    LET hits == SelectSeq(hist, LAMBDA r : r.datetime = dt)
    IN  IF hits = <<>>
        THEN [datetime |-> dt, pv_kwh |-> None, load_kwh |-> None,
              price_eur_kwh |-> None, temp_c |-> None, cloud_cover_pct |-> None]
        ELSE hits[1]

\* lines 199 and 211: pv, load and price of the row are there
Complete(r) == r.pv_kwh # None /\ r.load_kwh # None /\ r.price_eur_kwh # None

tail(s, n) == IF Len(s) <= n THEN s ELSE SubSeq(s, Len(s) - n + 1, Len(s))

\* _fallback_profile, lines 109-124: the 24 hours before today, or the last 24
\* rows; None for the ValueError
fallback_profile(hist, today_start) ==
    LET recent == SelectSeq(hist, LAMBDA r : /\ r.datetime >= today_start - ProfileHours
                                             /\ r.datetime < today_start)
        chosen == IF Len(recent) >= ProfileHours THEN recent
                  ELSE tail(hist, ProfileHours)
    IN  IF Len(chosen) < ProfileHours THEN None ELSE Some(chosen)

\* build_today_plan, lines 181-236: the plan before the weather is injected;
\* None where the function raises
build_plan(hist, n) ==
    IF hist = <<>> THEN None
    ELSE IF n < 1 THEN None
    ELSE IF n > MaxHours THEN None
    ELSE LET reindexed == [i \in 1..n |-> Reindexed(hist, i - 1)]
         IN  IF \A i \in 1..n : Complete(reindexed[i]) THEN Some(reindexed)
             ELSE LET fallback == fallback_profile(hist, 0)
                  IN  IF fallback = None THEN None
                      ELSE LET fb == tail(fallback[1], ProfileHours)
                           IN  Some([i \in 1..n |->
                                        IF Complete(reindexed[i]) THEN reindexed[i]
                                        ELSE [fb[((i - 1) % ProfileHours) + 1]
                                                  EXCEPT !.datetime = i - 1]])

\* what the forecast holds for an hour: a temperature each hour, a cloud cover
\* each even hour
ForecastTemp(dt) == Some(10 + dt)

ForecastCloud(dt) == IF dt % 2 = 0 THEN Some(55) ELSE None

\* Series.combine_first
combine_first(v, w) == IF v # None THEN v ELSE w

\* _inject_live_weather_if_enabled, lines 137-167; forecast is the set of
\* hours get_hourly_forecast_df returned, None if it raised
inject_live_weather_drops(rows, forecast) ==
    IF forecast = None
    THEN [i \in 1..Len(rows) |->
             [rows[i] EXCEPT !.temp_c = None, !.cloud_cover_pct = None]]
    ELSE [i \in 1..Len(rows) |->
             IF rows[i].datetime \in forecast[1]
             THEN [rows[i] EXCEPT
                      !.temp_c = combine_first(ForecastTemp(rows[i].datetime), @),
                      !.cloud_cover_pct =
                          combine_first(ForecastCloud(rows[i].datetime), @)]
             ELSE [rows[i] EXCEPT !.temp_c = None, !.cloud_cover_pct = None]]

inject_live_weather(rows, forecast) ==
    IF forecast = None THEN rows
    ELSE IF forecast[1] = {} THEN rows
    ELSE [i \in 1..Len(rows) |->
             IF rows[i].datetime \in forecast[1]
             THEN [rows[i] EXCEPT
                      !.temp_c = combine_first(ForecastTemp(rows[i].datetime), @),
                      !.cloud_cover_pct =
                          combine_first(ForecastCloud(rows[i].datetime), @)]
             ELSE rows[i]]

\* the weather of a history: none, or a temperature and a cloud cover each hour
HistoryRow(dt, pv, with_weather) ==
    [datetime |-> dt, pv_kwh |-> Some(pv), load_kwh |-> Some(2 * Kwh),
     price_eur_kwh |-> Some(300),
     temp_c |-> IF with_weather THEN Some(dt - 30) ELSE None,
     cloud_cover_pct |-> IF with_weather THEN Some(20) ELSE None]

Yesterday(with_weather) ==
    [j \in 1..ProfileHours |-> HistoryRow(j - 1 - ProfileHours, Kwh, with_weather)]

\* the rows of today the history holds: those of the hours in S, in order
Today(S, with_weather) ==
    LET held == SelectSeq([i \in 1..MaxLen |-> i - 1], LAMBDA dt : dt \in S)
    IN  [j \in 1..Len(held) |-> HistoryRow(held[j], 3 * Kwh, with_weather)]

Histories ==
    {(IF yesterday THEN Yesterday(w) ELSE <<>>) \o Today(S, w) :
        yesterday \in BOOLEAN, w \in BOOLEAN, S \in SUBSET (0..(MaxLen - 1))}

TodayKey(n) == QueryKey(settings.weather_lat, settings.weather_lon, 0, n)

InitToday ==
    /\ InitSim({default_home_battery}, {<<>>}, {<<>>}, {"build_today_plan"}, 0,
               {FALSE})
    /\ plan = <<>>
    /\ recommendations = <<>>
    /\ cost_model_params = None
    /\ price_threshold_eur_kwh = None
    /\ history \in Histories
    /\ hours \in 0..MaxLen
    /\ weather_mode \in {"csv", "open_meteo"}
    /\ cache = [key \in {TodayKey(n) : n \in 0..MaxLen} |-> None]
    /\ now = 0
    /\ query = None
    /\ threads = <<>>

todayVars == <<history, hours, weather_mode>>

\* build_today_plan raises ValueError: no history, a window of no hour, or a
\* gap in the window and fewer than 24 rows to fill it from
PlanRaises ==
    /\ pc = "request"
    /\ entry = "build_today_plan"
    /\ build_plan(history, hours) = None
    /\ pc' = "raised"
    /\ UNCHANGED <<params, timeseries, entry, df, k, soc, charge, discharge,
                   g_import, g_export, socs, out, calls, todo, first,
                   timeseries2, given, battery_enabled, price_eur_mwh,
                   export_mode, feed_in_tariff_eur_per_kwh, result>>
    /\ UNCHANGED <<planVars, cacheVars>>

\* build_today_plan, lines 181-236, and _inject_live_weather_if_enabled, lines
\* 134-135: the plan is built; with weather_mode 'csv' it is returned as it is
BuildPlan ==
    /\ pc = "request"
    /\ entry = "build_today_plan"
    /\ build_plan(history, hours) # None
    /\ plan' = build_plan(history, hours)[1]
    /\ pc' = (IF weather_mode = "open_meteo" THEN "forecast" ELSE "planned")
    /\ result' = (IF weather_mode = "open_meteo" THEN None
                  ELSE Some(build_plan(history, hours)[1]))
    /\ UNCHANGED <<params, timeseries, entry, df, k, soc, charge, discharge,
                   g_import, g_export, socs, out, calls, todo, first,
                   timeseries2, given, battery_enabled, price_eur_mwh,
                   export_mode, feed_in_tariff_eur_per_kwh>>
    /\ UNCHANGED <<recommendations, cost_model_params, price_threshold_eur_kwh,
                   todayVars, cacheVars>>

\* lines 138-145: get_hourly_forecast_df is called with the settings' location
\* and TTL and the window of the plan
ForecastLookup ==
    /\ pc = "forecast"
    /\ query = None
    /\ LookupOf(settings.weather_lat, settings.weather_lon, <<0, hours>>,
                settings.weather_cache_ttl_s)
    /\ UNCHANGED <<now, threads, simVars, planVars>>

\* open_meteo.py lines 140-150: the upstream answers with no hour; the empty
\* frame is stored and returned
FetchEmpty ==
    /\ ~NoCallUnderWay
    /\ cache' = set_cache(cache, query[1].key, {}, now)
    /\ query' = Some([query[1] EXCEPT !.phase = "returned", !.fetched = TRUE,
                                      !.returned = Some({})])
    /\ UNCHANGED <<now, threads, simVars, planVars>>

\* the forecast call is over: it returned a frame or raised
ForecastOver ==
    IF query = None THEN FALSE ELSE query[1].phase \in {"returned", "failed"}

\* lines 146-167: the plan with the forecast merged in, or the plan as it was
Inject ==
    /\ pc = "forecast"
    /\ ForecastOver
    /\ result' = Some(inject_live_weather(plan, query[1].returned))
    /\ pc' = "planned"
    /\ UNCHANGED <<params, timeseries, entry, df, k, soc, charge, discharge,
                   g_import, g_export, socs, out, calls, todo, first,
                   timeseries2, given, battery_enabled, price_eur_mwh,
                   export_mode, feed_in_tariff_eur_per_kwh>>
    /\ UNCHANGED <<planVars, cacheVars>>

NextToday ==
    PlanRaises \/ BuildPlan \/ ForecastLookup \/ FetchOk \/ FetchEmpty
        \/ FetchFails \/ Inject

SpecToday == InitToday /\ [][NextToday]_vars

-----------------------------------------------------------------------------
(* infra/weather/open_meteo.py: get_hourly_forecast_df() called by several  *)
(* threads with one key.  _cache_lock is held inside _get_cache and inside  *)
(* _set_cache (lines 47 and 59), so each of the two is one step; the        *)
(* request to Open-Meteo between them is made without the lock.             *)

\* the TTLs above 0: that of TTLs and the default of the settings
PositiveTTLs == {ttl \in TTLs : ttl > 0} \cup {settings.weather_cache_ttl_s}

\* the window every thread asks for, and its key
ThreadWindow == <<0, 2>>

ThreadKey ==
    QueryKey(settings.weather_lat, settings.weather_lon, ThreadWindow[1],
             ThreadWindow[2])

InitThreads ==
    /\ InitSim({default_home_battery}, {<<>>}, {<<>>}, {"get_hourly_forecast_df"},
               0, {FALSE})
    /\ PlanIdle
    /\ cache = [key \in {ThreadKey} |-> None]
    /\ now = 0
    /\ query = None
    /\ \E ttl \in PositiveTTLs :
          threads = [t \in 1..MaxThreads |->
                        [phase |-> "idle", cache_ttl_s |-> ttl, fetched |-> FALSE,
                         data |-> None, returned |-> None]]

\* lines 118-138 in thread t: the key, _get_cache under the lock, and the
\* answer from the cache if it finds a frame
ThreadLookup(t) ==
    /\ threads[t].phase = "idle"
    /\ LET got == get_cache(cache, ThreadKey, threads[t].cache_ttl_s, now)
       IN  /\ cache' = got.cache
           /\ threads' =
                 [threads EXCEPT
                     ![t].phase = IF got.found = None THEN "fetching" ELSE "returned",
                     ![t].returned =
                         IF got.found = None THEN None
                         ELSE Some(filter_window(got.found[1], ThreadWindow[1],
                                                 ThreadWindow[2]))]
    /\ UNCHANGED <<now, query, simVars, planVars>>

\* lines 140-148 in thread t: the request to Open-Meteo is made and answered
ThreadFetch(t) ==
    /\ threads[t].phase = "fetching"
    /\ threads' =
          [threads EXCEPT
              ![t].phase = "fetched",
              ![t].fetched = TRUE,
              ![t].data = Some(Upstream(ThreadKey.start_date, ThreadKey.end_date))]
    /\ UNCHANGED <<cache, now, query, simVars, planVars>>

\* lines 140-148 in thread t: the request is made and fails, RuntimeError
ThreadFetchFails(t) ==
    /\ threads[t].phase = "fetching"
    /\ threads' = [threads EXCEPT ![t].phase = "failed", ![t].fetched = TRUE]
    /\ UNCHANGED <<cache, now, query, simVars, planVars>>

\* lines 149-150 in thread t: _set_cache under the lock, and the answer
ThreadStore(t) ==
    /\ threads[t].phase = "fetched"
    /\ cache' = set_cache(cache, ThreadKey, threads[t].data[1], now)
    /\ threads' =
          [threads EXCEPT
              ![t].phase = "returned",
              ![t].returned = Some(filter_window(threads[t].data[1], ThreadWindow[1],
                                                 ThreadWindow[2]))]
    /\ UNCHANGED <<now, query, simVars, planVars>>

NextThreads ==
    \/ Tick
    \/ \E t \in 1..MaxThreads : ThreadLookup(t)
    \/ \E t \in 1..MaxThreads : ThreadFetch(t)
    \/ \E t \in 1..MaxThreads : ThreadFetchFails(t)
    \/ \E t \in 1..MaxThreads : ThreadStore(t)

SpecThreads == InitThreads /\ [][NextThreads]_vars

-----------------------------------------------------------------------------
(* Well-formedness of the model itself *)

Exact(x, f) == (x * f[1]) % f[2] = 0

ExactDiv(x, f) == FracPos(f) => (x * f[2]) % f[1] = 0

OnGrid(x) == x % Res = 0

\* every product and quotient of the next iteration is an integer of the model
ExactArithmetic ==
    (pc = "loop" /\ k < Len(df)) =>
        LET row == df[k + 1]
            surplus == row.production_kwh - row.consumption_kwh
            gridside == Min(surplus, params.p_charge_max_kw)
            stored == Min(Max(0, soc_max_kwh(params) - soc), MulFrac(gridside, params.eta_c))
            dstored == Min(Max(0, soc - soc_min_kwh(params)), params.p_discharge_max_kw)
            dis == Min(-surplus, MulFrac(dstored, params.eta_d))
        IN  /\ Exact(params.capacity_kwh, params.soc_min)
            /\ Exact(params.capacity_kwh, params.soc_max)
            /\ surplus >= 0 => Exact(gridside, params.eta_c) /\ ExactDiv(stored, params.eta_c)
            /\ surplus < 0 => Exact(dstored, params.eta_d) /\ ExactDiv(dis, params.eta_d)

TypeOK ==
    /\ pc \in {"request", "rejected", "raised", "loop", "returned", "compared",
             "summed", "summarised", "baseline", "kpi",
             "recommended", "forecast", "planned"}
    /\ k \in 0..Len(df)
    /\ Len(socs) = k
    /\ calls \in 0..todo

-----------------------------------------------------------------------------
(* The claims *)

\* the configurations the specification calls valid
ValidConfig(p) ==
    /\ FracLeq(<<0, 1>>, p.soc_min)
    /\ FracLeq(p.soc_min, p.soc_max)
    /\ FracLeq(p.soc_max, <<1, 1>>)
    /\ p.capacity_kwh >= 0
    /\ FracPos(p.eta_c) /\ FracLeq(p.eta_c, <<1, 1>>)
    /\ FracPos(p.eta_d) /\ FracLeq(p.eta_d, <<1, 1>>)
    /\ p.p_charge_max_kw >= 0
    /\ p.p_discharge_max_kw >= 0

BandMin == (params.capacity_kwh * params.soc_min[1]) \div params.soc_min[2]

BandMax == (params.capacity_kwh * params.soc_max[1]) \div params.soc_max[2]

Abs(x) == IF x >= 0 THEN x ELSE -x

\* C1: for a valid configuration every soc_kwh that simulate emits lies in
\* [capacity * soc_min, capacity * soc_max], at every step
C1_SocWithinBand ==
    ValidConfig(params) =>
        \A i \in 1..Len(socs) :
            BandMin <= socs[i].soc_kwh /\ socs[i].soc_kwh <= BandMax

\* a valid run whose first step would have left the band without the clamp:
\* the start SoC is below the band and the step is a deficit step
C1_Witness ==
    /\ ValidConfig(params)
    /\ Len(socs) >= 1
    /\ initial_soc(params) < BandMin
    /\ df[1].production_kwh < df[1].consumption_kwh
    /\ socs[1].soc_kwh = BandMin

\* C2: in every step production + discharge + grid_import equals
\* consumption + charge + grid_export: exactly for the flows as computed,
\* and within 1e-6 (one step of the rounding grid) for the emitted, rounded row
C2_EnergyConserved ==
    /\ k >= 1 =>
          df[k].production_kwh + discharge + g_import
              = df[k].consumption_kwh + charge + g_export
    /\ \A i \in 1..Len(socs) :
          Abs((socs[i].production_kwh + socs[i].discharge_kwh + socs[i].grid_import_kwh)
              - (socs[i].consumption_kwh + socs[i].charge_kwh + socs[i].grid_export_kwh))
            <= Res

\* a step that charges with a loss (charge differs from what is stored) and a
\* step whose emitted row is off balance by a rounding error
C2_Witness ==
    /\ Len(socs) = 2
    /\ socs[1].charge_kwh > 0
    /\ socs[1].charge_kwh + socs[1].grid_export_kwh
          = socs[1].production_kwh - socs[1].consumption_kwh
    /\ params.eta_c = <<1, 2>>
    /\ socs[2].production_kwh + socs[2].discharge_kwh + socs[2].grid_import_kwh
          # socs[2].consumption_kwh + socs[2].charge_kwh + socs[2].grid_export_kwh

\* C3: no emitted step both charges and discharges
C3_ChargeXorDischarge ==
    \A i \in 1..Len(socs) :
        /\ socs[i].charge_kwh > 0 => socs[i].discharge_kwh = 0
        /\ socs[i].discharge_kwh > 0 => socs[i].charge_kwh = 0

\* a charging step followed by a discharging step
C3_Witness ==
    /\ Len(socs) = 2
    /\ socs[1].charge_kwh > 0
    /\ socs[2].discharge_kwh > 0

NoBatteryImport(row) == Max(0, row.consumption_kwh - row.production_kwh)

NoBatteryExport(row) == Max(0, row.production_kwh - row.consumption_kwh)

\* C6 as claimed: in every emitted step grid_import_kwh <= max(0, consumption -
\* production) and grid_export_kwh <= max(0, production - consumption)
C6_EmittedNeverAboveNoBattery ==
    ValidConfig(params) =>
        \A i \in 1..Len(socs) :
            /\ socs[i].grid_import_kwh <= NoBatteryImport(socs[i])
            /\ socs[i].grid_export_kwh <= NoBatteryExport(socs[i])

\* C6 as amended: the flows as computed never exceed the no-battery flows, and
\* the emitted flows, rounded to 6 decimals, never exceed the no-battery flows
\* rounded to 6 decimals, so they exceed the no-battery flows by at most 5e-7
C6_NeverAboveNoBatteryUpToRounding ==
    ValidConfig(params) =>
        /\ k >= 1 =>
              /\ g_import <= NoBatteryImport(df[k])
              /\ g_export <= NoBatteryExport(df[k])
        /\ \A i \in 1..Len(socs) :
              /\ socs[i].grid_import_kwh <= Round6(NoBatteryImport(socs[i]))
              /\ socs[i].grid_export_kwh <= Round6(NoBatteryExport(socs[i]))
              /\ 2 * (socs[i].grid_import_kwh - NoBatteryImport(socs[i])) <= Res
              /\ 2 * (socs[i].grid_export_kwh - NoBatteryExport(socs[i])) <= Res

\* the battery covers the first step's deficit, and the second step's import
\* is emitted above the deficit it covers
C6_Witness ==
    /\ ValidConfig(params)
    /\ Len(socs) = 2
    /\ socs[1].discharge_kwh > 0
    /\ socs[1].grid_import_kwh < NoBatteryImport(socs[1])
    /\ socs[2].grid_import_kwh > NoBatteryImport(socs[2])

\* C9: for a valid configuration the SoC the loop starts from lies in
\* [soc_min_kwh, soc_max_kwh], whether initial_soc_kwh is set or unset
C9_StartSocWithinBand ==
    (ValidConfig(params) /\ pc = "loop" /\ k = 0) =>
        BandMin <= soc /\ soc <= BandMax

\* C10: an invalid configuration is rejected before any step is simulated:
\* no call with such a configuration emits a row or returns a frame
C10_InvalidConfigRejected ==
    ~ValidConfig(params) => (socs = <<>> /\ out = <<>>)

RECURSIVE SumOver(_, _)
SumOver(f, n) == IF n = 0 THEN 0 ELSE SumOver(f, n - 1) + f[n]

\* the priced cost of the frame simulate() returned, and of the no-battery flows
OptimizedCost ==
    Total(compute_costs(out, price_eur_mwh, export_mode, feed_in_tariff_eur_per_kwh),
          "net_cost_eur")

BaselineCost ==
    Total(compute_costs(baseline_grid_flows(timeseries), price_eur_mwh, export_mode,
                        feed_in_tariff_eur_per_kwh),
          "net_cost_eur")

\* the priced cost of the optimized flows of a plan: the frame simulate()
\* returned, or the no-battery flows when the battery is disabled
OptimizedCostOfPlan ==
    Total(compute_costs(IF battery_enabled THEN out ELSE baseline_grid_flows(timeseries),
                        price_eur_mwh, export_mode, feed_in_tariff_eur_per_kwh),
          "net_cost_eur")

PricesPresent == \A i \in 1..Len(price_eur_mwh) : price_eur_mwh[i] # None

\* C4 as claimed: with the battery enabled and exports paid a feed-in tariff at
\* or below the market price of every step, the priced cost of the battery flows
\* is never above the priced cost of the no-battery flows
C4_BatteryNeverCostsMore ==
    (/\ result # None
     /\ battery_enabled
     /\ ValidConfig(params)
     /\ export_mode = "feed_in"
     /\ PricesPresent
     /\ \A i \in 1..Len(price_eur_mwh) :
            feed_in_tariff_eur_per_kwh <= price_eur_mwh[i][1])
    => OptimizedCost <= BaselineCost

\* C4 as amended: with the battery enabled, exports paid a feed-in tariff of 0
\* and no market price below 0, the priced cost of the battery flows exceeds
\* the priced cost of the no-battery flows by at most the rounding of the
\* emitted imports (5e-7 kWh a step at the step's price), and by nothing when
\* production and consumption are multiples of 1e-6 kWh
C4_NoExportPayNeverCostsMoreUpToRounding ==
    (/\ result # None
     /\ battery_enabled
     /\ ValidConfig(params)
     /\ export_mode = "feed_in"
     /\ feed_in_tariff_eur_per_kwh = 0
     /\ PricesPresent
     /\ \A i \in 1..Len(price_eur_mwh) : price_eur_mwh[i][1] >= 0)
    => /\ 2 * (OptimizedCost - BaselineCost)
              <= Res * SumOver([i \in 1..Len(price_eur_mwh) |-> price_eur_mwh[i][1]],
                               Len(price_eur_mwh))
       /\ (\A i \in 1..Len(timeseries) :
              OnGrid(timeseries[i].production_kwh) /\ OnGrid(timeseries[i].consumption_kwh))
          => OptimizedCost <= BaselineCost

\* a priced two-step run, exports unpaid: the battery charges, then covers a
\* deficit, and the comparison shows a saving
C4_Witness ==
    /\ result # None
    /\ battery_enabled
    /\ export_mode = "feed_in"
    /\ feed_in_tariff_eur_per_kwh = 0
    /\ \A i \in 1..Len(price_eur_mwh) : price_eur_mwh[i][1] > 0
    /\ Len(out) = 2
    /\ out[1].charge_kwh > 0
    /\ out[2].discharge_kwh > 0
    /\ OptimizedCost < BaselineCost

C7_SameInputSameOutput ==
    /\ timeseries = given[1]
    /\ timeseries2 = given[2]
    /\ (calls = 2 /\ given[1] = given[2]) => out = first

\* the second of two calls on one frame has returned, and the first call left
\* the battery in another state than it started from
C7_Witness ==
    /\ calls = 2
    /\ given[1] = given[2]
    /\ Len(out) = 2
    /\ out[1].charge_kwh > 0
    /\ out[2].soc_kwh # initial_soc(params)

CommonPrefix(s, t, n) == \A j \in 1..n : s[j] = t[j]

\* C8: a call returns one row per input row, in input order, and row n of the
\* result is decided by the configuration and rows 1..n of the input: two frames
\* that agree on their first n rows give the same first n result rows
C8_RowPerRowNoLookahead ==
    /\ calls >= 1 =>
          /\ Len(first) = Len(given[1])
          /\ \A i \in 1..Len(first) :
                /\ first[i].production_kwh = given[1][i].production_kwh
                /\ first[i].consumption_kwh = given[1][i].consumption_kwh
    /\ calls = 2 =>
          /\ Len(out) = Len(given[2])
          /\ \A n \in 1..Min(Len(first), Len(out)) :
                CommonPrefix(given[1], given[2], n) => first[n] = out[n]

\* two frames of two rows that agree on the first row and differ in the second:
\* the results agree on the first row and differ in the second
C8_Witness ==
    /\ calls = 2
    /\ Len(given[1]) = 2 /\ Len(given[2]) = 2
    /\ given[1][1] = given[2][1]
    /\ given[1][2] # given[2][2]
    /\ first[1] = out[1]
    /\ first[2] # out[2]

\* the series the documented preconditions exclude
Malformed(frame) ==
    \/ frame = <<>>
    \/ missing(frame) # {}
    \/ \E i \in 1..Len(frame) :
          frame[i].production_kwh < 0 \/ frame[i].consumption_kwh < 0

\* C11: a call on an empty series, a series without a required column or a
\* series with a negative production or consumption fails as a whole: it
\* emits no row and returns no frame
C11_MalformedSeriesFails ==
    Malformed(timeseries) => (socs = <<>> /\ out = <<>> /\ pc # "returned")

\* the part of C11 the code does: a missing column raises before any row
C11_MissingColumnRaises ==
    missing(timeseries) # {} =>
        (socs = <<>> /\ out = <<>> /\ pc \in {"request", "rejected", "raised"})

C11_MissingColumnWitness == missing(timeseries) # {} /\ pc = "raised"

NonNegative(frame) ==
    /\ missing(frame) = {}
    /\ \A i \in 1..Len(frame) :
          frame[i].production_kwh >= 0 /\ frame[i].consumption_kwh >= 0

\* C12: for a valid configuration and a series without negative values every
\* flow of every step is >= 0: charge, discharge, grid import and grid export,
\* as computed and as emitted
C12_FlowsNonNegative ==
    (ValidConfig(params) /\ NonNegative(timeseries)) =>
        /\ charge >= 0 /\ discharge >= 0 /\ g_import >= 0 /\ g_export >= 0
        /\ \A i \in 1..Len(socs) :
              /\ socs[i].charge_kwh >= 0
              /\ socs[i].discharge_kwh >= 0
              /\ socs[i].grid_import_kwh >= 0
              /\ socs[i].grid_export_kwh >= 0

\* a valid run that starts above the band (no room to charge): the surplus of
\* the first step is exported whole, the second step discharges
C12_Witness ==
    /\ ValidConfig(params)
    /\ NonNegative(timeseries)
    /\ Len(socs) = 2
    /\ initial_soc(params) > BandMax
    /\ socs[1].production_kwh > socs[1].consumption_kwh
    /\ socs[1].charge_kwh = 0
    /\ socs[1].grid_export_kwh > 0
    /\ socs[2].discharge_kwh > 0

\* the priced frame of the summary
Priced == compute_costs(out, price_eur_mwh, export_mode, feed_in_tariff_eur_per_kwh)

\* C13: where every step has a price, each step's import cost is its grid
\* import times its price, its export revenue is its grid export times its
\* price in market mode and times the feed-in tariff otherwise, its net cost is
\* import cost minus export revenue; the totals are the sums over the steps,
\* and total net = total import cost - total export revenue
C13_StepCostsAndTotals ==
    (pc = "summed" /\ PricesPresent) =>
        /\ \A i \in 1..Len(out) :
              /\ Priced[i].import_cost_eur
                    = Some(out[i].grid_import_kwh * price_eur_mwh[i][1])
              /\ export_mode = "market" =>
                    Priced[i].export_revenue_eur
                        = Some(out[i].grid_export_kwh * price_eur_mwh[i][1])
              /\ export_mode = "feed_in" =>
                    Priced[i].export_revenue_eur
                        = Some(out[i].grid_export_kwh * feed_in_tariff_eur_per_kwh)
              /\ Priced[i].net_cost_eur
                    = Some(Priced[i].import_cost_eur[1] - Priced[i].export_revenue_eur[1])
        /\ result[1].total_import_cost_eur
              = SumOver([i \in 1..Len(out) |-> Priced[i].import_cost_eur[1]], Len(out))
        /\ result[1].total_export_revenue_eur
              = SumOver([i \in 1..Len(out) |-> Priced[i].export_revenue_eur[1]], Len(out))
        /\ result[1].total_net_cost_eur
              = result[1].total_import_cost_eur - result[1].total_export_revenue_eur

\* a summary over two steps with two different prices, feed-in mode with a
\* tariff that differs from both: one step exports, the other imports
C13_Witness ==
    /\ pc = "summed"
    /\ PricesPresent
    /\ Len(out) = 2
    /\ price_eur_mwh[1] # price_eur_mwh[2]
    /\ export_mode = "feed_in"
    /\ feed_in_tariff_eur_per_kwh = 0
    /\ out[1].grid_export_kwh > 0
    /\ out[2].grid_import_kwh > 0
    /\ result[1].total_net_cost_eur # 0

\* C14: a summary is produced only when every step of the flow series has a
\* price of its own: a step is never priced with the price of another step
C14_StepWithoutPriceFails ==
    pc = "summed" => PricesPresent

NoPriceBelowZero == \A i \in 1..Len(price_eur_mwh) : price_eur_mwh[i][1] >= 0

HourImport(h) == Max(plan[h].load_kwh - plan[h].pv_kwh, 0)

HourExport(h) == Max(plan[h].pv_kwh - plan[h].load_kwh, 0)

\* C17: baseline_cost prices the no-battery flows: import_kwh is the sum of
\* max(load - pv, 0), export_kwh the sum of max(pv - load, 0), no hour has
\* both above 0, cost_eur = sum(import * price) - feed_in_factor *
\* sum(export * price), and with feed_in_factor = 0 the exports earn nothing
C17_BaselineCostOfNoBatteryFlows ==
    pc = "baseline" =>
        LET n == Len(plan)
            f == cost_model_params[1].feed_in_factor
            paid == SumOver([h \in 1..n |-> HourImport(h) * plan[h].price_eur_kwh], n)
            earned == SumOver([h \in 1..n |-> HourExport(h) * plan[h].price_eur_kwh], n)
        IN  /\ \A h \in 1..n : ~(HourImport(h) > 0 /\ HourExport(h) > 0)
            /\ result[1].import_kwh = SumOver([h \in 1..n |-> HourImport(h)], n)
            /\ result[1].export_kwh = SumOver([h \in 1..n |-> HourExport(h)], n)
            /\ result[1].import_cost_eur = paid
            /\ f[2] * result[1].cost_eur = f[2] * paid - f[1] * earned
            /\ f[1] = 0 =>
                  /\ result[1].export_revenue_eur = 0
                  /\ result[1].cost_eur = paid

\* a frame with an hour of surplus and an hour of deficit, priced with
\* feed_in_factor = 0: the export earns nothing, the cost is the import cost
C17_Witness ==
    /\ pc = "baseline"
    /\ cost_model_params[1].feed_in_factor = <<0, 1>>
    /\ result[1].import_kwh > 0
    /\ result[1].export_kwh > 0
    /\ result[1].cost_eur = result[1].import_cost_eur

\* the frame cost_with_recommendations prices
Merged == apply_recommendations(plan, recommendations, cost_model_params[1])

\* the recommendation rows of hour h
RowsOfHour(h) == SelectSeq(recommendations, LAMBDA r : r.timestamp = h)

\* what action a makes of the baseline import imp and export exp of an hour
ImportAfter(a, imp, p) ==
    IF a = "discharge" THEN imp - MulFrac(imp, p.discharge_offset)
    ELSE IF a = "shift_load" THEN imp - MulFrac(imp, p.shift_fraction)
    ELSE imp

ExportAfter(a, exp, p) ==
    IF a = "charge" THEN exp - MulFrac(exp, p.charge_capture) ELSE exp

\* no hour has two recommendation rows
OneRowAnHour ==
    \A i, j \in 1..Len(recommendations) :
        recommendations[i].timestamp = recommendations[j].timestamp => i = j

C19_BatteryActionsFollowSimulation ==
    pc = "recommended" =>
        /\ Len(result[1]) = Len(plan)
        /\ \A i \in 1..Len(result[1]) :
              /\ result[1][i].action = "charge" =>
                    /\ battery_enabled
                    /\ 100 * out[i].charge_kwh > Kwh
              /\ result[1][i].action = "discharge" =>
                    /\ battery_enabled
                    /\ 100 * out[i].discharge_kwh > Kwh
                    /\ 100 * out[i].charge_kwh <= Kwh
              /\ ~battery_enabled => result[1][i].action \in {"shift_load", "idle"}

\* with the battery enabled: an hour that charges, an hour that discharges,
\* and an hour whose charge of 0.01 kWh is advised as no battery action
C19_Witness ==
    /\ pc = "recommended"
    /\ battery_enabled
    /\ \E i \in 1..Len(result[1]) : result[1][i].action = "charge"
    /\ \E i \in 1..Len(result[1]) :
          /\ out[i].charge_kwh > 0
          /\ 100 * out[i].charge_kwh = Kwh
          /\ result[1][i].action \in {"shift_load", "idle"}

\* with the battery disabled: a cheap hour with PV is advised to shift load
C19_WitnessDisabled ==
    /\ pc = "recommended"
    /\ ~battery_enabled
    /\ \E i \in 1..Len(result[1]) : result[1][i].action = "shift_load"

\* the cache holds an entry of key whose age at time t is at most ttl_s
FreshEntry(c, key, t, ttl_s) ==
    IF c[key] = None THEN FALSE ELSE t - c[key][1][1] <= ttl_s

\* a step that begins a call with a valid window
BeginsCall ==
    /\ NoCallUnderWay
    /\ query' # query
    /\ query'[1].phase # "raised"

\* C20: of calls made one after another, a call sends an upstream request if
\* and only if its cache_ttl_s <= 0 or, when it looks up the cache, the cache
\* holds no entry of its key (rounded latitude and longitude, start date, end
\* date) of an age of at most cache_ttl_s; a call that finds such an entry
\* answers without a request, and one that finds an older entry evicts it
\* and, the request succeeding, stores the frame anew
C20_FetchIffNoFreshEntry ==
    /\ [][BeginsCall =>
            LET q == query'[1]
                fresh == FreshEntry(cache, q.key, now, q.cache_ttl_s)
                fetch == q.cache_ttl_s <= 0 \/ ~fresh
            IN  /\ q.phase = (IF fetch THEN "fetching" ELSE "returned")
                /\ ~q.fetched
                /\ ~fetch => cache' = cache
                /\ (q.cache_ttl_s > 0 /\ ~fresh) => cache'[q.key] = None]_vars
    /\ [][(~NoCallUnderWay /\ query' # query) =>
            /\ query'[1].fetched
            /\ query'[1].phase \in {"returned", "failed"}
            /\ query'[1].phase = "returned" =>
                  cache'[query[1].key]
                      = Some(<<now, Upstream(query[1].key.start_date,
                                             query[1].key.end_date)>>)]_vars

\* a call is answered from the cache although its latitude and its window
\* differ from those of the call that stored the entry, the entry being as
\* old as the TTL allows
C20_Witness ==
    /\ query # None
    /\ query[1].phase = "returned"
    /\ ~query[1].fetched
    /\ query[1].latitude = 482000004
    /\ query[1].start_dt_utc = 1
    /\ query[1].cache_ttl_s = 2
    /\ cache[query[1].key] = Some(<<now - 2, Upstream(0, 0)>>)

\* the forecast call of the plan raised, or returned a frame of no row
ForecastFailed ==
    /\ weather_mode = "open_meteo"
    /\ ForecastOver
    /\ query[1].phase = "failed" \/ query[1].returned = Some({})

\* C21: with live weather enabled, a forecast call that raises or returns no
\* row does not make build_today_plan raise: it returns the plan it built from
\* the history, with every temp_c and cloud_cover_pct as they were
C21_ForecastFailureKeepsPlan ==
    ForecastFailed =>
        /\ pc \in {"forecast", "planned"}
        /\ plan = build_plan(history, hours)[1]
        /\ pc = "planned" =>
              /\ result = Some(plan)
              /\ \A i \in 1..Len(plan) :
                    /\ result[1][i].temp_c = plan[i].temp_c
                    /\ result[1][i].cloud_cover_pct = plan[i].cloud_cover_pct

\* the upstream request failed and the plan is returned with the weather of
\* the history: one hour from today's row, one from the fallback profile
C21_Witness ==
    /\ ForecastFailed
    /\ query[1].phase = "failed"
    /\ pc = "planned"
    /\ Len(result[1]) = 2
    /\ result[1][1].temp_c = Some(-30)
    /\ result[1][2].temp_c = Some(-53)
    /\ result[1][2].cloud_cover_pct = Some(20)

\* the upstream answered with no hour and the plan is returned as it was
C21_WitnessNoRows ==
    /\ ForecastFailed
    /\ query[1].returned = Some({})
    /\ pc = "planned"
    /\ result[1][1].temp_c = Some(-30)

\* the flows as computed of the first n rows of the call: simulate()'s loop
RECURSIVE Computed(_, _, _)
Computed(p, frame, n) ==
    IF n = 0 THEN <<>>
    ELSE LET before == Computed(p, frame, n - 1)
             soc0 == IF n = 1 THEN initial_soc(p) ELSE before[n - 1].soc
             z == IF n = 1
                  THEN [charge |-> 0, discharge |-> 0, g_import |-> 0, g_export |-> 0]
                  ELSE [charge |-> before[n - 1].charge,
                        discharge |-> before[n - 1].discharge,
                        g_import |-> before[n - 1].g_import,
                        g_export |-> before[n - 1].g_export]
         IN  Append(before, Dispatch(p, soc0, frame[n], z))

\* the SoC carried into step i of the call: the start SoC, or the SoC the
\* step before emitted
SocInto(i) == IF i = 1 THEN initial_soc(params) ELSE socs[i - 1].soc_kwh

\* surplus of the row the last iteration read
LastSurplus == df[k].production_kwh - df[k].consumption_kwh

\* C22: for a valid configuration, a step with production_kwh =
\* consumption_kwh emits charge, discharge, grid import and grid export of 0
\* and an SoC equal to the SoC carried into the step
C22_BalancedStepChangesNothing ==
    ValidConfig(params) =>
        \A i \in 1..Len(socs) :
            socs[i].production_kwh = socs[i].consumption_kwh =>
                /\ socs[i].charge_kwh = 0
                /\ socs[i].discharge_kwh = 0
                /\ socs[i].grid_import_kwh = 0
                /\ socs[i].grid_export_kwh = 0
                /\ socs[i].soc_kwh = SocInto(i)

\* the part of C22 the code does: the flows of a balanced step are 0, and its
\* SoC is the SoC carried into it, clamped
C22_BalancedStepHasNoFlow ==
    ValidConfig(params) =>
        \A i \in 1..Len(socs) :
            socs[i].production_kwh = socs[i].consumption_kwh =>
                /\ socs[i].charge_kwh = 0
                /\ socs[i].discharge_kwh = 0
                /\ socs[i].grid_import_kwh = 0
                /\ socs[i].grid_export_kwh = 0
                /\ socs[i].soc_kwh = clamp_soc_kwh(params, SocInto(i))

\* C23 as claimed: on a step with production >= consumption the emitted
\* charge_kwh is min(surplus, max charge power, (soc_max_kwh - soc) / eta_c),
\* grid_export_kwh is surplus - charge_kwh, discharge and import are 0, and
\* there is an export only if the step ends at soc_max_kwh or the charge is
\* the power limit
C23_GreedyCharge ==
    ValidConfig(params) =>
        \A i \in 1..Len(socs) :
            LET surplus == socs[i].production_kwh - socs[i].consumption_kwh
            IN  surplus >= 0 =>
                    /\ socs[i].charge_kwh
                          = Min(Min(surplus, params.p_charge_max_kw),
                                DivFrac(soc_max_kwh(params) - SocInto(i), params.eta_c))
                    /\ socs[i].grid_export_kwh = surplus - socs[i].charge_kwh
                    /\ socs[i].discharge_kwh = 0
                    /\ socs[i].grid_import_kwh = 0
                    /\ socs[i].grid_export_kwh > 0 =>
                          \/ socs[i].soc_kwh = soc_max_kwh(params)
                          \/ socs[i].charge_kwh = params.p_charge_max_kw

\* C23 as amended: on a step with production >= consumption the charge as
\* computed is min(surplus, max charge power, max(0, soc_max_kwh - soc) /
\* eta_c), the export as computed is surplus - charge, discharge and import
\* are 0, and there is an export only if the step ends at soc_max_kwh or the
\* charge is the power limit; the emitted charge_kwh and grid_export_kwh are
\* these values rounded to 6 decimals
C23_GreedyChargeUpToRounding ==
    (ValidConfig(params) /\ k >= 1 /\ Len(socs) = k) =>
        (LastSurplus >= 0 =>
            /\ charge = Min(Min(LastSurplus, params.p_charge_max_kw),
                            DivFrac(Max(0, soc_max_kwh(params) - SocInto(k)),
                                    params.eta_c))
            /\ g_export = LastSurplus - charge
            /\ discharge = 0
            /\ g_import = 0
            /\ g_export > 0 =>
                  \/ soc = soc_max_kwh(params)
                  \/ charge = params.p_charge_max_kw
            /\ socs[k].charge_kwh = Round6(charge)
            /\ socs[k].grid_export_kwh = Round6(g_export)
            /\ socs[k].discharge_kwh = 0
            /\ socs[k].grid_import_kwh = 0
            /\ socs[k].soc_kwh = soc)

\* a step that fills the battery to soc_max_kwh and exports the rest, after a
\* step whose charge was cut by the power limit and left room; the charge
\* loses half on its way into the battery
C23_Witness ==
    /\ ValidConfig(params)
    /\ params.eta_c = <<1, 2>>
    /\ k = 2 /\ Len(socs) = 2
    /\ socs[1].charge_kwh = params.p_charge_max_kw
    /\ socs[1].grid_export_kwh > 0
    /\ socs[1].soc_kwh < soc_max_kwh(params)
    /\ LastSurplus > 0
    /\ charge > 0
    /\ charge < LastSurplus
    /\ MulFrac(charge, params.eta_c) = soc_max_kwh(params) - SocInto(2)
    /\ soc = soc_max_kwh(params)

\* C24 as claimed: on a step with production < consumption the emitted
\* discharge_kwh is min(need, eta_d * min(soc - soc_min_kwh, max discharge
\* power)), grid_import_kwh is need - discharge_kwh, charge and export are 0,
\* and there is an import only if the step ends at soc_min_kwh or the energy
\* drawn from the battery is the power limit
C24_GreedyDischarge ==
    ValidConfig(params) =>
        \A i \in 1..Len(socs) :
            LET need == socs[i].consumption_kwh - socs[i].production_kwh
            IN  need > 0 =>
                    /\ socs[i].discharge_kwh
                          = Min(need,
                                MulFrac(Min(SocInto(i) - soc_min_kwh(params),
                                            params.p_discharge_max_kw),
                                        params.eta_d))
                    /\ socs[i].grid_import_kwh = need - socs[i].discharge_kwh
                    /\ socs[i].charge_kwh = 0
                    /\ socs[i].grid_export_kwh = 0
                    /\ socs[i].grid_import_kwh > 0 =>
                          \/ socs[i].soc_kwh = soc_min_kwh(params)
                          \/ DivFrac(socs[i].discharge_kwh, params.eta_d)
                                = params.p_discharge_max_kw

\* C24 as amended: on a step with production < consumption the discharge as
\* computed is min(need, eta_d * min(max(0, soc - soc_min_kwh), max discharge
\* power)), the import as computed is need - discharge, charge and export are
\* 0, and there is an import only if the step ends at soc_min_kwh or the
\* energy drawn from the battery is the power limit; the emitted
\* discharge_kwh and grid_import_kwh are these values rounded to 6 decimals
C24_GreedyDischargeUpToRounding ==
    (ValidConfig(params) /\ k >= 1 /\ Len(socs) = k) =>
        (LastSurplus < 0 =>
            /\ discharge = Min(-LastSurplus,
                               MulFrac(Min(Max(0, SocInto(k) - soc_min_kwh(params)),
                                           params.p_discharge_max_kw),
                                       params.eta_d))
            /\ g_import = -LastSurplus - discharge
            /\ charge = 0
            /\ g_export = 0
            /\ g_import > 0 =>
                  \/ soc = soc_min_kwh(params)
                  \/ DivFrac(discharge, params.eta_d) = params.p_discharge_max_kw
            /\ socs[k].discharge_kwh = Round6(discharge)
            /\ socs[k].grid_import_kwh = Round6(g_import)
            /\ socs[k].charge_kwh = 0
            /\ socs[k].grid_export_kwh = 0
            /\ socs[k].soc_kwh = soc)

\* a deficit step that drains the battery to soc_min_kwh and imports the rest,
\* after a deficit step cut by the power limit; half of what is drawn is lost
C24_Witness ==
    /\ ValidConfig(params)
    /\ params.eta_d = <<1, 2>>
    /\ k = 2 /\ Len(socs) = 2
    /\ DivFrac(Computed(params, df, 1)[1].discharge, params.eta_d)
          = params.p_discharge_max_kw
    /\ socs[1].grid_import_kwh > 0
    /\ socs[1].soc_kwh > soc_min_kwh(params)
    /\ LastSurplus < 0
    /\ discharge > 0
    /\ DivFrac(discharge, params.eta_d) < params.p_discharge_max_kw
    /\ g_import > 0
    /\ soc = soc_min_kwh(params)

\* the SoC of the last step before line 169 clamps it
SocBeforeClamp ==
    SocInto(k) + MulFrac(charge, params.eta_c)
        - (IF FracPos(params.eta_d) THEN DivFrac(discharge, params.eta_d) ELSE 0)

\* C25: for a valid configuration the SoC that the flows of a step give,
\* soc_start + charge * eta_c - discharge / eta_d, lies in [soc_min_kwh,
\* soc_max_kwh], and is the SoC the step emits: the clamp changes nothing
C25_ClampNeverActs ==
    (ValidConfig(params) /\ k >= 1 /\ Len(socs) = k) =>
        /\ soc_min_kwh(params) <= SocBeforeClamp
        /\ SocBeforeClamp <= soc_max_kwh(params)
        /\ socs[k].soc_kwh = SocBeforeClamp

\* the part of C25 the code does: the emitted SoC is the SoC the flows give,
\* clamped, and from the second step on the clamp changes nothing
C25_ClampActsOnFirstStepOnly ==
    (ValidConfig(params) /\ k >= 1 /\ Len(socs) = k) =>
        /\ socs[k].soc_kwh = clamp_soc_kwh(params, SocBeforeClamp)
        /\ k >= 2 => socs[k].soc_kwh = SocBeforeClamp

\* a configuration the ranges allow but for one efficiency of 0
ValidButZeroEfficiency(p) ==
    /\ ValidConfig([p EXCEPT !.eta_c = <<1, 1>>, !.eta_d = <<1, 1>>])
    /\ FracLeq(p.eta_c, <<1, 1>>) /\ FracLeq(p.eta_d, <<1, 1>>)
    /\ ~FracPos(p.eta_c) \/ ~FracPos(p.eta_d)

\* C26: with an efficiency of 0 no call raises; with eta_c = 0 a surplus step
\* has a charge of 0, the SoC carried into it and the whole surplus exported;
\* with eta_d = 0 a deficit step has a discharge of 0, the SoC carried into it
\* and the whole deficit imported
C26_ZeroEfficiencyMovesNothing ==
    (ValidButZeroEfficiency(params) /\ NonNegative(timeseries)) =>
        /\ pc \notin {"raised", "rejected"}
        /\ (k >= 1 /\ Len(socs) = k /\ ~FracPos(params.eta_c) /\ LastSurplus >= 0) =>
              /\ charge = 0 /\ socs[k].charge_kwh = 0
              /\ g_export = LastSurplus
              /\ socs[k].soc_kwh = SocInto(k)
        /\ (k >= 1 /\ Len(socs) = k /\ ~FracPos(params.eta_d) /\ LastSurplus < 0) =>
              /\ discharge = 0 /\ socs[k].discharge_kwh = 0
              /\ g_import = -LastSurplus
              /\ socs[k].soc_kwh = SocInto(k)

\* the part of C26 the code does: no call raises, the flow through the
\* efficiency of 0 is 0 and the surplus or deficit goes to the grid whole
C26_ZeroEfficiencyNoFlow ==
    (ValidButZeroEfficiency(params) /\ NonNegative(timeseries)) =>
        /\ pc \notin {"raised", "rejected"}
        /\ (k >= 1 /\ Len(socs) = k /\ ~FracPos(params.eta_c) /\ LastSurplus >= 0) =>
              /\ charge = 0 /\ socs[k].charge_kwh = 0
              /\ g_export = LastSurplus
              /\ socs[k].soc_kwh = clamp_soc_kwh(params, SocInto(k))
        /\ (k >= 1 /\ Len(socs) = k /\ ~FracPos(params.eta_d) /\ LastSurplus < 0) =>
              /\ discharge = 0 /\ socs[k].discharge_kwh = 0
              /\ g_import = -LastSurplus
              /\ socs[k].soc_kwh = clamp_soc_kwh(params, SocInto(k))

\* C27 as claimed: in every emitted step charge_kwh <= max charge power and
\* discharge_kwh / eta_d <= max discharge power
C27_PowerLimitsRespected ==
    ValidConfig(params) =>
        \A i \in 1..Len(socs) :
            /\ socs[i].charge_kwh <= params.p_charge_max_kw
            /\ socs[i].discharge_kwh * params.eta_d[2]
                  <= params.p_discharge_max_kw * params.eta_d[1]

\* C27 as amended: in every step the charge as computed is <= max charge power
\* and the discharge as computed, divided by eta_d, is <= max discharge power;
\* the emitted charge_kwh and discharge_kwh are rounded to 6 decimals, so they
\* are <= the limits max charge power and eta_d * max discharge power rounded
\* to 6 decimals, and exceed the limits by at most 5e-7 kWh
C27_PowerLimitsRespectedUpToRounding ==
    ValidConfig(params) =>
        /\ charge <= params.p_charge_max_kw
        /\ discharge * params.eta_d[2] <= params.p_discharge_max_kw * params.eta_d[1]
        /\ \A i \in 1..Len(socs) :
              /\ socs[i].charge_kwh <= Round6(params.p_charge_max_kw)
              /\ socs[i].discharge_kwh
                    <= Round6(MulFrac(params.p_discharge_max_kw, params.eta_d))
              /\ 2 * (socs[i].charge_kwh - params.p_charge_max_kw) <= Res
              /\ 2 * (socs[i].discharge_kwh
                         - MulFrac(params.p_discharge_max_kw, params.eta_d)) <= Res

\* a charge that the power limit cuts is emitted above the limit, and the
\* next step's discharge is cut by the power limit
C27_Witness ==
    /\ ValidConfig(params)
    /\ k = 2 /\ Len(socs) = 2
    /\ socs[1].production_kwh - socs[1].consumption_kwh > params.p_charge_max_kw
    /\ socs[1].charge_kwh > params.p_charge_max_kw
    /\ -LastSurplus > MulFrac(params.p_discharge_max_kw, params.eta_d)
    /\ DivFrac(discharge, params.eta_d) = params.p_discharge_max_kw
    /\ g_import > 0

\* what the battery held above soc_min_kwh at the start
HeldAtStart == Max(0, initial_soc(params) - soc_min_kwh(params))

\* sum(discharge) / eta_d - (HeldAtStart + eta_c * sum(charge)), times the
\* numerator of eta_d and the denominator of eta_c
Overdrawn(sum_discharge, sum_charge) ==
    sum_discharge * params.eta_d[2] * params.eta_c[2]
        - (HeldAtStart * params.eta_d[1] * params.eta_c[2]
           + sum_charge * params.eta_c[1] * params.eta_d[1])

\* C28 as claimed: over every prefix of the emitted rows, sum(discharge_kwh) /
\* eta_d <= max(0, initial SoC - soc_min_kwh) + eta_c * sum(charge_kwh), for
\* every configuration with soc_min <= soc_max and eta_d > 0
C28_NeverDeliversMoreThanHeld ==
    (FracLeq(params.soc_min, params.soc_max) /\ FracPos(params.eta_d)) =>
        \A n \in 1..Len(socs) :
            Overdrawn(SumOver([i \in 1..n |-> socs[i].discharge_kwh], n),
                      SumOver([i \in 1..n |-> socs[i].charge_kwh], n)) <= 0

\* C28 as amended: for every configuration with soc_min <= soc_max, eta_d > 0
\* and power limits >= 0, over every prefix of a run the flows as computed
\* satisfy sum(discharge) / eta_d <= max(0, initial SoC - soc_min_kwh) + eta_c
\* * sum(charge); the emitted flows, rounded to 6 decimals, satisfy it up to
\* 5e-7 * (1 / eta_d + eta_c) a step
C28_NeverDeliversMoreThanHeldUpToRounding ==
    (/\ FracLeq(params.soc_min, params.soc_max)
     /\ FracPos(params.eta_d)
     /\ params.p_charge_max_kw >= 0
     /\ params.p_discharge_max_kw >= 0
     /\ k >= 1 /\ Len(socs) = k) =>
        LET computed == Computed(params, df, k)
        IN  /\ computed[k].soc = soc
            /\ computed[k].charge = charge
            /\ computed[k].discharge = discharge
            /\ Overdrawn(SumOver([i \in 1..k |-> computed[i].discharge], k),
                         SumOver([i \in 1..k |-> computed[i].charge], k)) <= 0
            /\ 2 * Overdrawn(SumOver([i \in 1..k |-> socs[i].discharge_kwh], k),
                             SumOver([i \in 1..k |-> socs[i].charge_kwh], k))
                  <= k * Res * (params.eta_d[2] * params.eta_c[2]
                                + params.eta_c[1] * params.eta_d[1])

\* a battery that starts at soc_min_kwh, stores a charge and is drained by the
\* next step: the flows as computed balance, the emitted ones do not
C28_Witness ==
    /\ FracLeq(params.soc_min, params.soc_max)
    /\ ValidConfig(params)
    /\ HeldAtStart = 0
    /\ k = 2 /\ Len(socs) = 2
    /\ socs[1].charge_kwh > 0
    /\ discharge > 0
    /\ soc = soc_min_kwh(params)
    /\ Overdrawn(SumOver([i \in 1..2 |-> Computed(params, df, 2)[i].discharge], 2),
                 SumOver([i \in 1..2 |-> Computed(params, df, 2)[i].charge], 2)) = 0
    /\ Overdrawn(SumOver([i \in 1..2 |-> socs[i].discharge_kwh], 2),
                 SumOver([i \in 1..2 |-> socs[i].charge_kwh], 2)) > 0

\* C29: for any recommendation rows apply_recommendations returns one row for
\* each hour of the frame, in the frame's order, so the recommended totals of
\* compare_costs are sums over the hours the baseline totals are sums over
C29_OneRowPerHour ==
    pc = "kpi" =>
        LET merged == Merged
        IN  /\ Len(merged) = Len(plan)
            /\ \A h \in 1..Len(plan) : merged[h].datetime = plan[h].datetime

\* the part of C29 the code does: with at most one recommendation row an hour
\* (rows for hours outside the frame included) there is one row an hour, in
\* order, and the recommended totals do not exceed the baseline totals
C29_OneRowPerHourWithoutRepeats ==
    (pc = "kpi" /\ OneRowAnHour) =>
        LET merged == Merged
        IN  /\ Len(merged) = Len(plan)
            /\ \A h \in 1..Len(plan) : merged[h].datetime = plan[h].datetime
            /\ result[1].recommended_import_kwh <= result[1].baseline_import_kwh
            /\ result[1].recommended_export_kwh <= result[1].baseline_export_kwh

\* the threads that have sent a request to Open-Meteo
Fetchers == {t \in 1..MaxThreads : threads[t].fetched}

\* C30: of the threads that call get_hourly_forecast_df with one key and one
\* cache_ttl_s > 0 on an empty cache, at most one sends a request to Open-Meteo
\* while the first TTL has not run out, under every interleaving
C30_AtMostOneFetchWithinTtl ==
    (\A t \in 1..MaxThreads : now <= threads[t].cache_ttl_s) =>
        Cardinality(Fetchers) <= 1

\* the part of C30 the code does: a thread that looks the cache up after
\* another thread has stored the frame, within the TTL, sends no request
C30_NoFetchAfterStoreWithinTtl ==
    [][\A t \in 1..MaxThreads :
          (/\ threads[t].phase = "idle"
           /\ threads'[t].phase # "idle"
           /\ FreshEntry(cache, ThreadKey, now, threads[t].cache_ttl_s))
          => (threads'[t].phase = "returned" /\ ~threads'[t].fetched)]_vars

====
